---- MODULE Spec2Model ----
(***************************************************************************)
(* Model of the rate-fetching pipeline of the currency converter:          *)
(* CurrencyApiService (src/src/app.controller.ts, lines 50-222): the       *)
(* rate-snapshot cache, the circuit breaker and the retrier.               *)
(*                                                                         *)
(* Concurrency: the service runs on a single-threaded event loop.  A step  *)
(* of the model is the code that runs between two suspension points.  The  *)
(* real suspensions are the cache read, the HTTP call, the backoff sleep   *)
(* and the cache write.  The resumptions of the async callers that follow  *)
(* the end of fetchWithRetry (fetchWithCircuitBreaker, getExchangeRates)   *)
(* touch no shared state before the breaker update, so they are part of    *)
(* the step that ends the retrier.  An invocation of getExchangeRates has  *)
(* no effect before its cache read resolves, so the invocation and the     *)
(* resolution of the read are one step.                                    *)
(*                                                                         *)
(* Time is discrete; one unit is 1000 ms (the default backoff base).       *)
(***************************************************************************)
EXTENDS Integers, Sequences, FiniteSets, TLC

\* ------------------------------------------------------------------ bounds
NumProcs == 2
MaxTime == 3
MaxCalls == 4
NumSnapshots == 2
MaxConverts == 2

\* ------------------------------------------------- configuration of the code
\* CIRCUIT_BREAKER_THRESHOLD (configurable; the tests use 3, the default is 5)
failureThreshold == 2
\* CIRCUIT_BREAKER_TIMEOUT in time units (configurable; the tests use 1000 ms)
circuitTimeout == 2
\* CACHE_TTL in seconds (configurable): the value the services are built with
\* unless said otherwise
CACHE_TTL == 1
\* fetchWithRetry(retries = 3, delay = 1000)
retries == 3
delay == 1

\* `null` of lastFailureTime (Date.now() is never negative)
null == -1
\* HttpStatus.SERVICE_UNAVAILABLE
SERVICE_UNAVAILABLE == 503

Procs == 1..NumProcs
Snapshots == 1..NumSnapshots

\* statuses of a failed transport attempt: 0 stands for "no response"
\* (network error or timeout: axiosError.response is undefined)
ErrorStatuses == {0, 400, 500}

VARIABLES
    cacheTtl,         \* this.cacheTtl and this.conversionCacheTtl, set at construction:
                      \* a cache entry lives cacheTtl * 1000 ms
    now,              \* Date.now(), in time units
    failureCount,     \* breaker: this.failureCount
    lastFailureTime,  \* breaker: this.lastFailureTime (null or a time)
    circuitOpen,      \* breaker: this.circuitOpen
    rateCache,        \* the cache entry under CACHE_KEY: [val, exp], val = 0: none
    pc,               \* per request: "idle", "http", "sleep", "cacheSet"
    attempt,          \* per request: the loop variable of fetchWithRetry
    wakeAt,           \* per request: the time the backoff timer fires
    rates,            \* per request: the local `rates` awaiting the cache write
    calls,            \* history: transport calls made by the request's current call
    waits,            \* history: the backoff delays the current call slept
    trial,            \* history: the current call was admitted with circuitOpen set
    lastData,         \* history: response.data of the current call's successful attempt
    last,             \* history: the getExchangeRates call that ended in the last step
    consec,           \* history: admitted calls that failed since the last one that succeeded
    prevRun,          \* history: the value of consec when the last success came
    started,          \* history: number of getExchangeRates calls made so far
    table,            \* resolver under test: the snapshot handed to it
    arg,              \* resolver under test: <<from, to, amount>> of the request
    outcome,          \* resolver under test: <<o>>, o how the request ended, or <<>>
    back,             \* resolver under test: <<o>>, o how the request for the way back ended, or <<>>
    convCache,        \* the cache entries under the conversion keys written: key -> [val, exp]
    cpc,              \* per request: convert is "idle", awaits "rates" or its "convSet"
    creq,             \* per request: <<from, to, amount>> of its convert call
    cpend,            \* per request: <<c>>, c what its convert call returns after the cache write
    out,              \* history: <<c>>, c the convert call that ended in the last step, or <<>>
    returned,         \* history: per key written, the last response computed and by which request
    converts,         \* history: number of convert calls made so far
    ipc,              \* invalidateCache is "idle", awaits its "reset" or its "del", or is "done"
    stale,            \* history: what the caches held when invalidateCache was called
    origin            \* history: when the snapshots behind the values held were fetched

vars == <<now, failureCount, lastFailureTime, circuitOpen, rateCache, pc, attempt,
          wakeAt, rates, calls, waits, trial, lastData, last, consec, prevRun, started,
          table, arg, outcome, back, convCache, cpc, creq, cpend, out, returned, converts,
          ipc, stale, cacheTtl, origin>>

breaker == <<failureCount, lastFailureTime, circuitOpen>>

\* the variables of the pipeline, and those of the resolver under test
pipeline == <<now, failureCount, lastFailureTime, circuitOpen, rateCache, pc, attempt,
              wakeAt, rates, calls, waits, trial, lastData, last, consec, prevRun, started>>
resolver == <<table, arg, outcome, back>>
converter == <<convCache, cpc, creq, cpend, out, returned, converts>>
invalidator == <<ipc, stale>>
config == <<cacheTtl>>
provenance == <<origin>>

\* the local state and the history of one request
locals == <<attempt, wakeAt, rates, calls, waits, trial, lastData>>

\* ------------------------------------------------------------ values
NoResult == [kind |-> "none", status |-> 0, message |-> "", data |-> 0]
Ok(d) == [kind |-> "ok", status |-> 200, message |-> "", data |-> d]
HttpException(msg, st) == [kind |-> "HttpException", status |-> st, message |-> msg, data |-> 0]
AxiosError(st) == [kind |-> "AxiosError", status |-> st, message |-> "", data |-> 0]

CircuitOpenError == HttpException("Service temporarily unavailable", SERVICE_UNAVAILABLE)
ExhaustedError == HttpException("Failed to fetch exchange rates after multiple attempts", SERVICE_UNAVAILABLE)
ClientError(st) == HttpException("Monobank API error", st)

\* ------------------------------------------------------------ the cache
NoEntry == [val |-> 0, exp |-> 0]

\* cacheManager.get(CACHE_KEY): the stored value until its TTL has run out
CacheGet(c, t) == IF c.val # 0 /\ t < c.exp THEN c.val ELSE 0

\* a variant with a slip: the TTL handed over in the wrong unit
CacheSet_TtlInMs(v, t) == [val |-> v, exp |-> t + cacheTtl * 1000]

\* cacheManager.set(CACHE_KEY, rates, this.cacheTtl * 1000)
CacheSet(v, t) == [val |-> v, exp |-> t + cacheTtl]

\* ------------------------------------------------------------ the breaker
\* fetchWithCircuitBreaker, lines 108-117: the call is rejected
CircuitRejects_Inclusive(open, lft, t) ==
    open /\ (t - (IF lft = null THEN 0 ELSE lft)) <= circuitTimeout

CircuitRejects(open, lft, t) ==
    open /\ (t - (IF lft = null THEN 0 ELSE lft)) < circuitTimeout

\* variants of the breaker code with a plausible slip, used to show that the
\* properties below depend on the code
handleFailure_StrictThreshold(fc, open, t) ==
    [failureCount |-> fc + 1,
     lastFailureTime |-> t,
     circuitOpen |-> IF fc + 1 > failureThreshold THEN TRUE ELSE open]

handleFailure_StaleCount(fc, open, t) ==
    [failureCount |-> fc + 1,
     lastFailureTime |-> t,
     circuitOpen |-> IF fc >= failureThreshold THEN TRUE ELSE open]

handleFailure_CountedTwice(fc, open, t) ==
    [failureCount |-> fc + 2,
     lastFailureTime |-> t,
     circuitOpen |-> IF fc + 2 >= failureThreshold THEN TRUE ELSE open]

onFetchSuccess_KeepsTimestamp(fc, open, lft) ==
    [failureCount |-> 0, lastFailureTime |-> lft, circuitOpen |-> FALSE]

onFetchSuccess_KeepsCount(fc, open, lft) ==
    [failureCount |-> fc, lastFailureTime |-> null, circuitOpen |-> open]

\* handleCircuitBreakerFailure, lines 194-204
handleCircuitBreakerFailure(fc, open, t) ==
    [failureCount |-> fc + 1,
     lastFailureTime |-> t,
     circuitOpen |-> IF fc + 1 >= failureThreshold THEN TRUE ELSE open]

\* fetchWithCircuitBreaker, lines 125-127
\* a variant with a slip: the open flag is not reset
onFetchSuccess_KeepsOpen(fc, open, lft) ==
    [failureCount |-> 0, lastFailureTime |-> null, circuitOpen |-> open]

onFetchSuccess(fc, open, lft) ==
    [failureCount |-> 0, lastFailureTime |-> null, circuitOpen |-> FALSE]

\* ------------------------------------------------------------ the retrier
\* variants of the retrier code with a plausible slip
IsClientError_Above400(st) == st # 0 /\ st > 400 /\ st < 500

retryReturn_First(d) == 1

\* lines 164-168
IsClientError(st) == st # 0 /\ st >= 400 /\ st < 500

\* line 182
BackoffDelay(a) == delay * 2 ^ (a - 1)

\* line 155: return response.data
retryReturn(d) == d

onAttemptError_GivesUpEarly(st, a) ==
    IF IsClientError(st)
    THEN [act |-> "throw", err |-> ClientError(st), ms |-> 0]
    ELSE IF a >= retries - 1
         THEN [act |-> "throw", err |-> ExhaustedError, ms |-> 0]
         ELSE [act |-> "sleep", err |-> NoResult, ms |-> BackoffDelay(a)]

\* the catch block of fetchWithRetry, lines 156-185: what a failed attempt does
\* a variant with a slip: one attempt more than the budget
onAttemptError_OneMore(st, a) ==
    IF IsClientError(st) THEN [act |-> "throw", err |-> ClientError(st), ms |-> 0]
    ELSE IF a = retries + 1 THEN [act |-> "throw", err |-> ExhaustedError, ms |-> 0]
    ELSE [act |-> "sleep", err |-> NoResult, ms |-> BackoffDelay(a)]

onAttemptError(st, a) ==
    IF IsClientError(st)
    THEN [act |-> "throw", err |-> ClientError(st), ms |-> 0]
    ELSE IF a = retries
         THEN [act |-> "throw", err |-> ExhaustedError, ms |-> 0]
         ELSE [act |-> "sleep", err |-> NoResult, ms |-> BackoffDelay(a)]

\* ====================================================================
\* AppService (src/src/app.service.ts, lines 138-354): the rate resolver
\* and the conversion engine.
\*
\* A JavaScript number is modelled as an exact fraction [n, d] in lowest
\* terms with d > 0.  An optional field of a rate record is <<>> when the
\* field is absent (undefined) and <<x>> when it holds the number x.
\* A currency symbol is the sequence of its characters.
\* ====================================================================

\* ------------------------------------------------------------ numbers
Abs(x) == IF x < 0 THEN -x ELSE x

RECURSIVE GCD(_, _)
GCD(a, b) == IF b = 0 THEN a ELSE GCD(b, a % b)

\* the number n / d (d # 0)
Rat(n, d) ==
    LET g == GCD(Abs(n), Abs(d))
        s == IF d < 0 THEN -1 ELSE 1
    IN  [n |-> (s * n) \div g, d |-> (s * d) \div g]

Num(k) == Rat(k, 1)
\* x * y, the common factors taken out before the products are formed
RatMul(x, y) ==
    LET g == GCD(Abs(x.n), Abs(y.d))
        h == GCD(Abs(y.n), Abs(x.d))
    IN  Rat((x.n \div g) * (y.n \div h), (x.d \div h) * (y.d \div g))

\* x / y (y # 0)
RatDiv(x, y) == RatMul(x, [n |-> y.d, d |-> y.n])
RatMax(x, y) == IF x.n * y.d >= y.n * x.d THEN x ELSE y

\* a variant with a slip: the decimals beyond `digits` are cut off
toFixed_Truncates(x, digits) ==
    LET scale == 10 ^ digits
        u == ((Abs(x.n) \div x.d) * scale) + ((Abs(x.n) % x.d) * scale) \div x.d
    IN  Rat(IF x.n < 0 THEN -u ELSE u, scale)

\* the first k decimals of r / d (0 <= r < d) as a number u, and the
\* remainder r left after them
RECURSIVE Decimals(_, _, _)
Decimals(r, d, k) ==
    IF k = 0 THEN [u |-> 0, r |-> r]
    ELSE LET t == Decimals(r, d, k - 1)
         IN  [u |-> t.u * 10 + (t.r * 10) \div d, r |-> (t.r * 10) % d]

\* Number(x.toFixed(digits)): the multiple of 10^-digits nearest to x, the
\* one of larger magnitude when two are equally near
toFixed(x, digits) ==
    LET scale == 10 ^ digits
        a == Abs(x.n)
        q == a \div x.d
        f == Decimals(a % x.d, x.d, digits)
        u == q * scale + f.u + (IF 2 * f.r >= x.d THEN 1 ELSE 0)
    IN  Rat(IF x.n < 0 THEN -u ELSE u, scale)

\* `!x` is false: x is a number other than 0 (absent, i.e. undefined, is falsy)
Truthy(x) == x # <<>> /\ x[1].n # 0

\* x || y
OrElse(x, y) == IF Truthy(x) THEN x ELSE y

\* x ?? y
Nullish(x, y) == IF x # <<>> THEN x ELSE y

\* ------------------------------------------------------------ symbols
LowerCase == <<"a", "b", "c", "d", "e", "f", "g", "h", "i", "j", "k", "l", "m",
               "n", "o", "p", "q", "r", "s", "t", "u", "v", "w", "x", "y", "z">>
UpperCase == <<"A", "B", "C", "D", "E", "F", "G", "H", "I", "J", "K", "L", "M",
               "N", "O", "P", "Q", "R", "S", "T", "U", "V", "W", "X", "Y", "Z">>

\* String.prototype.toUpperCase
toUpperCase(str) ==
    [i \in 1..Len(str) |->
        IF \E k \in 1..Len(LowerCase) : LowerCase[k] = str[i]
        THEN UpperCase[CHOOSE k \in 1..Len(LowerCase) : LowerCase[k] = str[i]]
        ELSE str[i]]

\* the symbols of the requests
USD == <<"U", "S", "D">>
EUR == <<"E", "U", "R">>
UAH == <<"U", "A", "H">>
GBP == <<"G", "B", "P">>
usd == <<"u", "s", "d">>
uah == <<"u", "a", "h">>
xyz == <<"x", "y", "z">>

\* constants/currency-codes.ts: the part of the ISO 4217 table the tests use
UAH_CODE == 980
CURRENCY_CODES ==
    (USD :> 840) @@ (EUR :> 978) @@ (UAH :> UAH_CODE) @@ (GBP :> 826)

\* a variant with a slip: the symbol is looked up as given
getCurrencyCode_AsGiven(currency) ==
    IF currency \in DOMAIN CURRENCY_CODES THEN CURRENCY_CODES[currency] ELSE 0

\* CurrencyApiService.getCurrencyCode; 0 stands for undefined
getCurrencyCode(currency) ==
    LET key == toUpperCase(currency)
    IN  IF key \in DOMAIN CURRENCY_CODES THEN CURRENCY_CODES[key] ELSE 0

\* ------------------------------------------------------------ rate records
\* MonobankRate
RateRecord(a, b, date, buy, sell, cross) ==
    [currencyCodeA |-> a, currencyCodeB |-> b, date |-> date,
     rateBuy |-> buy, rateSell |-> sell, rateCross |-> cross]

\* a variant with a slip: the last matching record is taken
RECURSIVE find_LastMatch(_, _, _)
find_LastMatch(rs, a, b) ==
    IF rs = <<>> THEN <<>>
    ELSE LET rest == find_LastMatch(Tail(rs), a, b)
         IN  IF rest # <<>> THEN rest
             ELSE IF rs[1].currencyCodeA = a /\ rs[1].currencyCodeB = b THEN <<rs[1]>>
             ELSE <<>>

\* rates.find(r => r.currencyCodeA === a && r.currencyCodeB === b):
\* <<>> is undefined
RECURSIVE find(_, _, _)
find(rs, a, b) ==
    IF rs = <<>> THEN <<>>
    ELSE IF rs[1].currencyCodeA = a /\ rs[1].currencyCodeB = b THEN <<rs[1]>>
    ELSE find(Tail(rs), a, b)

\* a variant with a slip: a currency is exchanged for itself at par
findRate_SameCurrencyAtPar(rs, fromCode, toCode) ==
    IF fromCode = toCode
    THEN <<RateRecord(fromCode, toCode, Num(0), <<Num(1)>>, <<Num(1)>>, <<Num(1)>>)>>
    ELSE IF fromCode = UAH_CODE \/ toCode = UAH_CODE
    THEN find(rs, IF fromCode = UAH_CODE THEN toCode ELSE fromCode, UAH_CODE)
    ELSE LET fromToUah == find(rs, fromCode, UAH_CODE)
             toToUah == find(rs, toCode, UAH_CODE)
         IN  IF fromToUah # <<>> /\ toToUah # <<>>
             THEN LET f == fromToUah[1]
                      t == toToUah[1]
                      up == OrElse(OrElse(f.rateBuy, f.rateCross), <<Num(1)>>)[1]
                      dn == OrElse(OrElse(t.rateSell, t.rateCross), <<Num(1)>>)[1]
                  IN  <<RateRecord(fromCode, toCode, RatMax(f.date, t.date),
                                   <<>>, <<>>, <<RatDiv(up, dn)>>)>>
             ELSE <<>>

\* AppService.findRate: <<>> is null
findRate(rs, fromCode, toCode) ==
    IF fromCode = UAH_CODE \/ toCode = UAH_CODE
    THEN find(rs, IF fromCode = UAH_CODE THEN toCode ELSE fromCode, UAH_CODE)
    ELSE LET fromToUah == find(rs, fromCode, UAH_CODE)
             toToUah == find(rs, toCode, UAH_CODE)
         IN  IF fromToUah # <<>> /\ toToUah # <<>>
             THEN LET f == fromToUah[1]
                      t == toToUah[1]
                      up == OrElse(OrElse(f.rateBuy, f.rateCross), <<Num(1)>>)[1]
                      dn == OrElse(OrElse(t.rateSell, t.rateCross), <<Num(1)>>)[1]
                  IN  <<RateRecord(fromCode, toCode, RatMax(f.date, t.date),
                                   <<>>, <<>>, <<RatDiv(up, dn)>>)>>
             ELSE <<>>

\* ------------------------------------------------------------ the engine
\* a variant with a slip: the sell rate serves a purchase
getRequiredRate_SellForBuy(rate, type) ==
    LET value == IF type = "buy" THEN Nullish(rate.rateSell, rate.rateCross)
                 ELSE IF type = "sell" THEN Nullish(rate.rateSell, rate.rateCross)
                 ELSE rate.rateCross
    IN  IF ~Truthy(value) THEN <<>> ELSE value

\* AppService.getRequiredRate: <<v>> when it returns v, <<>> when it throws
\* "Incomplete exchange rate data."
getRequiredRate(rate, type) ==
    LET value == IF type = "buy" THEN Nullish(rate.rateBuy, rate.rateCross)
                 ELSE IF type = "sell" THEN Nullish(rate.rateSell, rate.rateCross)
                 ELSE rate.rateCross
    IN  IF ~Truthy(value) THEN <<>> ELSE value

\* a variant with a slip: the amount is divided in every direction
calculateConversion_AlwaysDivides(amount, rate, fromCode, toCode) ==
    LET v == getRequiredRate(rate, IF toCode = UAH_CODE THEN "buy"
                                   ELSE IF fromCode = UAH_CODE THEN "sell" ELSE "cross")
    IN  IF v = <<>> THEN <<>> ELSE <<RatDiv(amount, v[1])>>

\* AppService.calculateConversion: <<x>> when it returns x, <<>> when
\* getRequiredRate throws
calculateConversion(amount, rate, fromCode, toCode) ==
    IF toCode = UAH_CODE
    THEN LET v == getRequiredRate(rate, "buy")
         IN  IF v = <<>> THEN <<>> ELSE <<RatMul(amount, v[1])>>
    ELSE IF fromCode = UAH_CODE
    THEN LET v == getRequiredRate(rate, "sell")
         IN  IF v = <<>> THEN <<>> ELSE <<RatDiv(amount, v[1])>>
    ELSE LET v == getRequiredRate(rate, "cross")
         IN  IF v = <<>> THEN <<>> ELSE <<RatMul(amount, v[1])>>

\* ------------------------------------------------------------ convert
BAD_REQUEST == 400
NOT_FOUND == 404

\* ConvertResponseDto
Response(from, to, amount, result) ==
    [from |-> from, to |-> to, amount |-> amount, result |-> result]

\* how a call of convert ends: it returns a response (`response` is <<resp>>),
\* or throws (`response` is <<>>)
Returned(resp) == [kind |-> "ok", status |-> 200, message |-> "", response |-> <<resp>>]
Thrown(msg, st) == [kind |-> "HttpException", status |-> st, message |-> msg, response |-> <<>>]
Pending == [kind |-> "none", status |-> 0, message |-> "", response |-> <<>>]

InvalidAmount == Thrown("Invalid amount", BAD_REQUEST)
UnsupportedCurrency == Thrown("Unsupported currency", BAD_REQUEST)
RateNotFound == Thrown("Exchange rate not found", NOT_FOUND)
IncompleteRateData == Thrown("Incomplete exchange rate data.", SERVICE_UNAVAILABLE)

\* a variant with a slip: the amount is not checked
validate_AnyAmount(from, to, amount) ==
    IF getCurrencyCode(from) = 0 THEN UnsupportedCurrency
    ELSE IF getCurrencyCode(to) = 0 THEN UnsupportedCurrency
    ELSE Pending

\* convert, lines 175-197: the checks before the first cache read;
\* Pending when they pass
validate(from, to, amount) ==
    IF amount.n <= 0 THEN InvalidAmount
    ELSE IF getCurrencyCode(from) = 0 THEN UnsupportedCurrency
    ELSE IF getCurrencyCode(to) = 0 THEN UnsupportedCurrency
    ELSE Pending

\* convert, lines 214-235: from the snapshot to the response
resolveAndConvert(rs, from, to, amount) ==
    LET fromCode == getCurrencyCode(from)
        toCode == getCurrencyCode(to)
        rate == findRate(rs, fromCode, toCode)
    IN  IF rate = <<>> THEN RateNotFound
        ELSE LET result == calculateConversion(amount, rate[1], fromCode, toCode)
             IN  IF result = <<>> THEN IncompleteRateData
                 ELSE Returned(Response(toUpperCase(from), toUpperCase(to), amount,
                                        toFixed(result[1], 4)))

\* ------------------------------------------------------------ the conversion cache
\* a variant with a slip: the amount is left out of the key
getConversionCacheKey_NoAmount(from, to, amount) ==
    <<"conversion", toUpperCase(from), toUpperCase(to)>>

\* AppService.getConversionCacheKey
getConversionCacheKey(from, to, amount) ==
    <<"conversion", toUpperCase(from), toUpperCase(to), amount>>

\* cacheManager.get(cacheKey): <<>> is undefined, <<resp>> a response
ConvCacheGet(cache, key, t) ==
    IF key \in DOMAIN cache /\ t < cache[key].exp THEN cache[key].val ELSE <<>>

\* a variant with a slip: the entry is written without a time to live
ConvCacheSet_Expired(cache, key, v, t) == (key :> [val |-> v, exp |-> t]) @@ cache

\* a variant with a slip: the entry is kept for twice the time to live
ConvCacheSet_KeptTwice(cache, key, v, t) ==
    (key :> [val |-> v, exp |-> t + 2 * cacheTtl]) @@ cache

\* cacheManager.set(cacheKey, response, this.conversionCacheTtl * 1000);
\* conversionCacheTtl is read from the same setting as cacheTtl
ConvCacheSet(cache, key, v, t) == (key :> [val |-> v, exp |-> t + cacheTtl]) @@ cache

\* ------------------------------------------------------------ snapshots
\* the provider's response with number d: the test's USD record with rates
\* that move with d, and an EUR record that lacks its rates in every second
\* response; no record for GBP
SnapshotData(d) ==
    <<RateRecord(840, UAH_CODE, Num(d),
                 <<Rat(375 + (d - 1), 10)>>, <<Rat(380 + (d - 1), 10)>>, <<>>),
      IF d % 2 = 0
      THEN RateRecord(978, UAH_CODE, Num(d), <<>>, <<>>, <<>>)
      ELSE RateRecord(978, UAH_CODE, Num(d), <<Rat(410, 10)>>, <<Rat(415, 10)>>, <<>>)>>

\* ------------------------------------------------------------ convert, continued
\* no request
NoArg == <<>>

\* what `out` records of a convert call: its arguments, how it ended, whether
\* its cache read hit, the reads of the conversion cache, the calls of
\* getExchangeRates and the transport calls it made, and the number of the
\* snapshot getExchangeRates gave it (0: none)
Converted(req, result, hit, reads, fetches, transports, data) ==
    [req |-> req, result |-> result, hit |-> hit, reads |-> reads,
     fetches |-> fetches, transports |-> transports, data |-> data]

\* what `returned` records per key: the request whose response was written
\* last, the response, and the time of the write
Computed(req, resp, at) == [req |-> req, response |-> resp, at |-> at]

\* no convert call ended in the last step
NoneConverted == Converted(NoArg, Pending, FALSE, 0, 0, 0, 0)

\* a variant with a slip: the response is built and cached before the
\* outcome of the resolution is looked at
afterRates_CachesFailure(got, from, to, amount) ==
    IF got.kind # "ok"
    THEN [act |-> "throw", result |-> Thrown(got.message, got.status)]
    ELSE [act |-> "set",
          result |-> resolveAndConvert(SnapshotData(got.data), from, to, amount)]

\* convert, lines 212-243, once getExchangeRates has ended with `got`: an
\* error of getExchangeRates, of findRate or of the engine is thrown on; a
\* response goes to the cache write
afterRates(got, from, to, amount) ==
    IF got.kind # "ok"
    THEN [act |-> "throw", result |-> Thrown(got.message, got.status)]
    ELSE LET o == resolveAndConvert(SnapshotData(got.data), from, to, amount)
         IN  IF o.kind = "ok" THEN [act |-> "set", result |-> o]
             ELSE [act |-> "throw", result |-> o]

\* ------------------------------------------------------------ requests
\* the clients that call convert: one, whose calls follow one another (the
\* requests that run getExchangeRates side by side are those of Spec)
Clients == {1}

\* the calls of convert that are made: valid ones in either case of the
\* symbols, with and without a record in the snapshot, one of an amount
\* (0.00049) whose product is rounded up at the rate 37.5 and down at 37.6,
\* and invalid ones
Requests ==
    {<<usd, uah, Num(100)>>, <<USD, UAH, Num(100)>>, <<USD, UAH, Rat(49, 100000)>>,
     <<EUR, UAH, Num(100)>>, <<USD, GBP, Num(100)>>,
     <<xyz, UAH, Num(100)>>, <<USD, xyz, Num(100)>>,
     <<USD, UAH, Num(0)>>, <<USD, UAH, Num(-100)>>}

\* ------------------------------------------------------------ Init
\* what `last` records of the call that ended in the last step: its result
\* (what the caller got), the transport calls it made, the backoff delays it
\* slept, whether it was admitted with the circuit open, and the response of
\* its last transport attempt (NoResult when it made none)
Ended(res, n, w, tr, resp) ==
    [result |-> res, calls |-> n, waits |-> w, trial |-> tr, resp |-> resp]

\* no call ended in the last step
NoneEnded == Ended(NoResult, 0, <<>>, FALSE, NoResult)

InitPipeline ==
    /\ now = 0
    /\ failureCount = 0
    /\ lastFailureTime = null
    /\ circuitOpen = FALSE
    /\ rateCache = NoEntry
    /\ pc = [p \in Procs |-> "idle"]
    /\ attempt = [p \in Procs |-> 0]
    /\ wakeAt = [p \in Procs |-> 0]
    /\ rates = [p \in Procs |-> 0]
    /\ calls = [p \in Procs |-> 0]
    /\ waits = [p \in Procs |-> <<>>]
    /\ trial = [p \in Procs |-> FALSE]
    /\ lastData = [p \in Procs |-> 0]
    /\ last = NoneEnded
    /\ consec = 0
    /\ prevRun = 0
    /\ started = 0

InitResolver ==
    /\ table = <<>>
    /\ arg = NoArg
    /\ outcome = <<>>
    /\ back = <<>>

InitConverter ==
    /\ convCache = <<>>
    /\ cpc = [p \in Clients |-> "idle"]
    /\ creq = [p \in Clients |-> NoArg]
    /\ cpend = [p \in Clients |-> <<>>]
    /\ out = <<>>
    /\ returned = <<>>
    /\ converts = 0

\* invalidateCache was not called
NotCalled == [conv |-> {}, rates |-> FALSE, held |-> 0, at |-> 0, quiet |-> FALSE]

InitInvalidator ==
    /\ ipc = "idle"
    /\ stale = NotCalled

\* the services are built with the time to live CACHE_TTL
InitConfig == cacheTtl = CACHE_TTL

\* the fetch times are not recorded
Untracked == <<>>

InitProvenance == origin = Untracked

Init ==
    /\ InitPipeline
    /\ InitResolver
    /\ InitConverter
    /\ InitInvalidator
    /\ InitConfig
    /\ InitProvenance

\* the call of request p is over: its local state and its history are dropped
Forget(p) ==
    /\ attempt' = [attempt EXCEPT ![p] = 0]
    /\ wakeAt' = [wakeAt EXCEPT ![p] = 0]
    /\ rates' = [rates EXCEPT ![p] = 0]
    /\ calls' = [calls EXCEPT ![p] = 0]
    /\ waits' = [waits EXCEPT ![p] = <<>>]
    /\ trial' = [trial EXCEPT ![p] = FALSE]
    /\ lastData' = [lastData EXCEPT ![p] = 0]

\* a variant with a slip: a rejected call is counted as a failure
GetExchangeRates_RejectCounts(p) ==
    /\ pc[p] = "idle"
    /\ started < MaxCalls
    /\ started' = started + 1
    /\ UNCHANGED <<now, rateCache, consec, prevRun>>
    /\ IF CacheGet(rateCache, now) # 0
       THEN /\ last' = Ended(Ok(CacheGet(rateCache, now)), 0, <<>>, FALSE, NoResult)
            /\ UNCHANGED <<pc, locals, breaker>>
       ELSE IF CircuitRejects(circuitOpen, lastFailureTime, now)
       THEN /\ last' = Ended(CircuitOpenError, 0, <<>>, FALSE, NoResult)
            /\ failureCount' = failureCount + 1
            /\ lastFailureTime' = now
            /\ UNCHANGED <<pc, locals, circuitOpen>>
       ELSE /\ pc' = [pc EXCEPT ![p] = "http"]
            /\ attempt' = [attempt EXCEPT ![p] = 1]
            /\ calls' = [calls EXCEPT ![p] = 1]
            /\ trial' = [trial EXCEPT ![p] = circuitOpen]
            /\ last' = NoneEnded
            /\ UNCHANGED <<wakeAt, rates, waits, lastData, breaker>>

\* ------------------------------------------------------------ actions
\* getExchangeRates, lines 88-98, up to the first transport call:
\* the cache read resolves; on a miss fetchWithCircuitBreaker runs its check
\* (lines 108-120) and, when it admits the call, fetchWithRetry issues
\* attempt 1 (lines 140-153).
GetExchangeRates(p) ==
    /\ pc[p] = "idle"
    /\ started < MaxCalls
    /\ started' = started + 1
    /\ UNCHANGED <<now, breaker, rateCache, consec, prevRun>>
    /\ IF CacheGet(rateCache, now) # 0
       THEN /\ last' = Ended(Ok(CacheGet(rateCache, now)), 0, <<>>, FALSE, NoResult)
            /\ UNCHANGED <<pc, locals>>
       ELSE IF CircuitRejects(circuitOpen, lastFailureTime, now)
       THEN /\ last' = Ended(CircuitOpenError, 0, <<>>, FALSE, NoResult)
            /\ UNCHANGED <<pc, locals>>
       ELSE /\ pc' = [pc EXCEPT ![p] = "http"]
            /\ attempt' = [attempt EXCEPT ![p] = 1]
            /\ calls' = [calls EXCEPT ![p] = 1]
            /\ trial' = [trial EXCEPT ![p] = circuitOpen]
            /\ last' = NoneEnded
            /\ UNCHANGED <<wakeAt, rates, waits, lastData>>

\* The transport call of the current attempt succeeds with snapshot d:
\* fetchWithRetry returns response.data (line 155), fetchWithCircuitBreaker
\* closes the breaker (lines 125-129) and getExchangeRates issues the cache
\* write (line 100).
HttpSuccess(p, d) ==
    /\ pc[p] = "http"
    /\ lastData' = [lastData EXCEPT ![p] = d]
    /\ rates' = [rates EXCEPT ![p] = retryReturn(d)]
    /\ LET b == onFetchSuccess(failureCount, circuitOpen, lastFailureTime)
       IN  /\ failureCount' = b.failureCount
           /\ lastFailureTime' = b.lastFailureTime
           /\ circuitOpen' = b.circuitOpen
    /\ prevRun' = consec
    /\ consec' = 0
    /\ pc' = [pc EXCEPT ![p] = "cacheSet"]
    /\ last' = NoneEnded
    /\ UNCHANGED <<now, rateCache, attempt, wakeAt, calls, waits, trial, started>>

\* a variant of the error path with a slip: the cache write sits in a
\* `finally`, so a failed call writes its undefined `rates` to the cache
HttpError_WritesCache(p, st) ==
    /\ pc[p] = "http"
    /\ LET r == onAttemptError(st, attempt[p])
       IN  IF r.act = "throw"
           THEN /\ LET b == handleCircuitBreakerFailure(failureCount, circuitOpen, now)
                   IN  /\ failureCount' = b.failureCount
                       /\ lastFailureTime' = b.lastFailureTime
                       /\ circuitOpen' = b.circuitOpen
                /\ last' = Ended(r.err, calls[p], waits[p], trial[p], AxiosError(st))
                /\ rateCache' = CacheSet(rates[p], now)
                /\ consec' = consec + 1
                /\ pc' = [pc EXCEPT ![p] = "idle"]
                /\ Forget(p)
                /\ UNCHANGED prevRun
           ELSE /\ waits' = [waits EXCEPT ![p] = Append(@, r.ms)]
                /\ wakeAt' = [wakeAt EXCEPT ![p] = now + r.ms]
                /\ pc' = [pc EXCEPT ![p] = "sleep"]
                /\ last' = NoneEnded
                /\ UNCHANGED <<breaker, consec, prevRun, attempt, rates,
                               calls, trial, lastData, rateCache>>
    /\ UNCHANGED <<now, started>>

\* a variant of the error path with a slip: a client-class error is rethrown
\* past the breaker, which records exhausted retries only
HttpError_ClientErrorSkipsBreaker(p, st) ==
    /\ pc[p] = "http"
    /\ LET r == onAttemptError(st, attempt[p])
       IN  IF r.act = "throw"
           THEN /\ LET b == handleCircuitBreakerFailure(failureCount, circuitOpen, now)
                   IN  IF IsClientError(st)
                       THEN UNCHANGED breaker
                       ELSE /\ failureCount' = b.failureCount
                            /\ lastFailureTime' = b.lastFailureTime
                            /\ circuitOpen' = b.circuitOpen
                /\ last' = Ended(r.err, calls[p], waits[p], trial[p], AxiosError(st))
                /\ consec' = consec + 1
                /\ pc' = [pc EXCEPT ![p] = "idle"]
                /\ Forget(p)
                /\ UNCHANGED prevRun
           ELSE /\ waits' = [waits EXCEPT ![p] = Append(@, r.ms)]
                /\ wakeAt' = [wakeAt EXCEPT ![p] = now + r.ms]
                /\ pc' = [pc EXCEPT ![p] = "sleep"]
                /\ last' = NoneEnded
                /\ UNCHANGED <<breaker, consec, prevRun, attempt, rates,
                               calls, trial, lastData>>
    /\ UNCHANGED <<now, rateCache, started>>

\* The transport call of the current attempt fails with status st (0: no
\* response): the catch block of fetchWithRetry (lines 156-185) either
\* throws, and then fetchWithCircuitBreaker records the failure and rethrows
\* (lines 130-133), or starts the backoff sleep.
HttpError(p, st) ==
    /\ pc[p] = "http"
    /\ LET r == onAttemptError(st, attempt[p])
       IN  IF r.act = "throw"
           THEN /\ LET b == handleCircuitBreakerFailure(failureCount, circuitOpen, now)
                   IN  /\ failureCount' = b.failureCount
                       /\ lastFailureTime' = b.lastFailureTime
                       /\ circuitOpen' = b.circuitOpen
                /\ last' = Ended(r.err, calls[p], waits[p], trial[p], AxiosError(st))
                /\ consec' = consec + 1
                /\ pc' = [pc EXCEPT ![p] = "idle"]
                /\ Forget(p)
                /\ UNCHANGED prevRun
           ELSE /\ waits' = [waits EXCEPT ![p] = Append(@, r.ms)]
                /\ wakeAt' = [wakeAt EXCEPT ![p] = now + r.ms]
                /\ pc' = [pc EXCEPT ![p] = "sleep"]
                /\ last' = NoneEnded
                /\ UNCHANGED <<breaker, consec, prevRun, attempt, rates,
                               calls, trial, lastData>>
    /\ UNCHANGED <<now, rateCache, started>>

\* The backoff timer fires (line 184, sleep at lines 219-221) and the loop
\* issues the next attempt (lines 140-153).
Wake(p) ==
    /\ pc[p] = "sleep"
    /\ now >= wakeAt[p]
    /\ attempt' = [attempt EXCEPT ![p] = @ + 1]
    /\ calls' = [calls EXCEPT ![p] = @ + 1]
    /\ wakeAt' = [wakeAt EXCEPT ![p] = 0]
    /\ pc' = [pc EXCEPT ![p] = "http"]
    /\ last' = NoneEnded
    /\ UNCHANGED <<now, breaker, rateCache, rates, waits, trial, lastData,
                   consec, prevRun, started>>

\* a variant with a slip: a call that finds an entry written meanwhile keeps
\* it and returns it in place of its own snapshot
CacheSetDone_FirstWriteWins(p) ==
    /\ pc[p] = "cacheSet"
    /\ LET held == CacheGet(rateCache, now)
       IN  /\ rateCache' = IF held # 0 THEN rateCache ELSE CacheSet(rates[p], now)
           /\ last' = Ended(Ok(IF held # 0 THEN held ELSE rates[p]),
                            calls[p], waits[p], trial[p], Ok(lastData[p]))
    /\ pc' = [pc EXCEPT ![p] = "idle"]
    /\ Forget(p)
    /\ UNCHANGED <<now, breaker, consec, prevRun, started>>

\* The cache write resolves (line 100) and getExchangeRates returns (line 104).
CacheSetDone(p) ==
    /\ pc[p] = "cacheSet"
    /\ rateCache' = CacheSet(rates[p], now)
    /\ last' = Ended(Ok(rates[p]), calls[p], waits[p], trial[p], Ok(lastData[p]))
    /\ pc' = [pc EXCEPT ![p] = "idle"]
    /\ Forget(p)
    /\ UNCHANGED <<now, breaker, consec, prevRun, started>>

\* The clock advances.
Tick ==
    /\ now < MaxTime
    /\ now' = now + 1
    /\ last' = NoneEnded
    /\ UNCHANGED <<breaker, rateCache, pc, locals, consec, prevRun, started>>

Next ==
    \/ \E p \in Procs : GetExchangeRates(p) /\ UNCHANGED <<resolver, converter, invalidator, config, provenance>>
    \/ \E p \in Procs : \E d \in Snapshots : HttpSuccess(p, d) /\ UNCHANGED <<resolver, converter, invalidator, config, provenance>>
    \/ \E p \in Procs : \E st \in ErrorStatuses : HttpError(p, st) /\ UNCHANGED <<resolver, converter, invalidator, config, provenance>>
    \/ \E p \in Procs : Wake(p) /\ UNCHANGED <<resolver, converter, invalidator, config, provenance>>
    \/ \E p \in Procs : CacheSetDone(p) /\ UNCHANGED <<resolver, converter, invalidator, config, provenance>>
    \/ Tick /\ UNCHANGED <<resolver, converter, invalidator, config, provenance>>

Spec == Init /\ [][Next]_vars

\* --------------------------------------------------------------------
\* The same fetch pipeline with its scheduling stated, for the properties
\* that say something eventually happens.  Two callers run, which is
\* enough for one call to go on while the other opens the breaker.  Calls
\* start up to MaxTime; the clock goes on past MaxTime for as long as a
\* backoff timer is pending, so that every timer that was set fires.
\* --------------------------------------------------------------------
Runners == {1, 2}

\* a caller calls getExchangeRates, within the horizon of the clock
Call(p) ==
    /\ now <= MaxTime
    /\ GetExchangeRates(p)

\* the HTTP call of p comes back, with a snapshot or with an error
TransportEnds(p) ==
    \/ \E d \in Snapshots : HttpSuccess(p, d)
    \/ \E st \in ErrorStatuses : HttpError(p, st)

\* sleep (lines 184, 219-221): the time a pending backoff timer is waiting for
\* goes by
TimerElapses ==
    /\ now >= MaxTime
    /\ \E p \in Runners : pc[p] = "sleep" /\ wakeAt[p] > now
    /\ now' = now + 1
    /\ last' = NoneEnded
    /\ UNCHANGED <<breaker, rateCache, pc, locals, consec, prevRun, started>>

NextFair ==
    \/ \E p \in Runners : Call(p) /\ UNCHANGED <<resolver, converter, invalidator, config, provenance>>
    \/ \E p \in Runners : TransportEnds(p) /\ UNCHANGED <<resolver, converter, invalidator, config, provenance>>
    \/ \E p \in Runners : Wake(p) /\ UNCHANGED <<resolver, converter, invalidator, config, provenance>>
    \/ \E p \in Runners : CacheSetDone(p) /\ UNCHANGED <<resolver, converter, invalidator, config, provenance>>
    \/ Tick /\ UNCHANGED <<resolver, converter, invalidator, config, provenance>>
    \/ TimerElapses /\ UNCHANGED <<resolver, converter, invalidator, config, provenance>>

\* Weak fairness: the clock runs; a transport call comes back (the premise
\* of the termination property: the HTTP client has its own timeout); a
\* timer that is due fires and a resolved promise is continued (the event
\* loop runs every ready callback); callers go on calling while the model
\* lets them.
SpecFair ==
    /\ Init
    /\ [][NextFair]_vars
    /\ WF_vars(Tick /\ UNCHANGED <<resolver, converter, invalidator, config, provenance>>)
    /\ WF_vars(TimerElapses /\ UNCHANGED <<resolver, converter, invalidator, config, provenance>>)
    /\ \A p \in Runners : WF_vars(Call(p) /\ UNCHANGED <<resolver, converter, invalidator, config, provenance>>)
    /\ \A p \in Runners : WF_vars(TransportEnds(p) /\ UNCHANGED <<resolver, converter, invalidator, config, provenance>>)
    /\ \A p \in Runners : WF_vars(Wake(p) /\ UNCHANGED <<resolver, converter, invalidator, config, provenance>>)
    /\ \A p \in Runners : WF_vars(CacheSetDone(p) /\ UNCHANGED <<resolver, converter, invalidator, config, provenance>>)

\* ====================================================================
\* The resolver and the engine on their own: a snapshot drawn from a
\* bounded set of tables, and one request resolved against it.
\* ====================================================================
\* what a rate field of a provider record may hold
Shapes == {"absent", "zero", "negative", "nominal"}

\* the rates of the test snapshot (app.service.spec.ts, mockRates), in tenths;
\* the cross rate of a pair lies between its buy and sell rates
Nominal(code, field) ==
    IF code = 840
    THEN (IF field = "buy" THEN 375 ELSE IF field = "sell" THEN 380 ELSE 378)
    ELSE (IF field = "buy" THEN 410 ELSE IF field = "sell" THEN 415 ELSE 412)

FieldOf(shape, tenths) ==
    IF shape = "absent" THEN <<>>
    ELSE IF shape = "zero" THEN <<Num(0)>>
    ELSE IF shape = "negative" THEN <<Rat(-tenths, 10)>>
    ELSE <<Rat(tenths, 10)>>

\* the records the provider may send for the pair (code, UAH)
Records(code) ==
    {RateRecord(code, UAH_CODE, Num(code),
                FieldOf(b, Nominal(code, "buy")),
                FieldOf(s, Nominal(code, "sell")),
                FieldOf(c, Nominal(code, "cross"))) : b \in Shapes, s \in Shapes, c \in Shapes}

\* the record of the test snapshot for the pair (code, UAH)
Quoted(code) ==
    RateRecord(code, UAH_CODE, Num(code),
               <<Rat(Nominal(code, "buy"), 10)>>, <<Rat(Nominal(code, "sell"), 10)>>, <<>>)

\* a second record for the same pair, with other rates
Requoted(code) ==
    RateRecord(code, UAH_CODE, Num(code + 1),
               <<Rat(Nominal(code, "buy") - 5, 10)>>, <<Rat(Nominal(code, "sell") + 5, 10)>>, <<>>)

\* a record for the reversed pair (UAH, code)
Reversed(code) ==
    RateRecord(UAH_CODE, code, Num(code), <<Rat(25, 1000)>>, <<Rat(27, 1000)>>, <<>>)

\* snapshots with duplicates and reversed pairs, in every order
Pool == {Quoted(840), Requoted(840), Reversed(840), Quoted(978), Reversed(978)}
Shuffled ==
    {<<a>> : a \in Pool} \cup {<<a, b>> : a \in Pool, b \in Pool}
                         \cup {<<a, b, c>> : a \in Pool, b \in Pool, c \in Pool}

\* a record that quotes the base currency against itself
SelfQuoted == RateRecord(UAH_CODE, UAH_CODE, Num(UAH_CODE), <<Num(1)>>, <<Num(1)>>, <<>>)

Tables ==
    {<<>>} \cup {<<a>> : a \in Records(840)}
           \cup {<<a, b>> : a \in Records(840), b \in Records(978)}
           \cup Shuffled
           \cup {<<SelfQuoted>>, <<Quoted(840), SelfQuoted>>}

ResolveSymbols == {USD, EUR, UAH, GBP}
Amounts == {100, 3800}

\* the requests resolved: 100 units of every currency, and 3800 units of
\* the base currency, for every target
ResolveRequests ==
    {<<from, to, amount>> \in ResolveSymbols \X ResolveSymbols \X Amounts :
        amount = 100 \/ from = UAH}

InitResolve ==
    /\ InitPipeline
    /\ InitConverter
    /\ InitInvalidator
    /\ InitConfig
    /\ InitProvenance
    /\ table \in Tables
    /\ arg = NoArg
    /\ outcome = <<>>
    /\ back = <<>>

\* convert, lines 214-235, applied to the snapshot `table`
Resolve(from, to, amount) ==
    /\ arg = NoArg
    /\ arg' = <<from, to, Num(amount)>>
    /\ outcome' = <<resolveAndConvert(table, from, to, Num(amount))>>
    /\ UNCHANGED <<table, back, pipeline, converter, invalidator, config, provenance>>

\* convert(to, from, result), lines 175-235: the amount the request gave
\* for a pair of two currencies is converted back against the same snapshot
ResolveBack ==
    /\ outcome # <<>>
    /\ outcome[1].response # <<>>
    /\ outcome[1].response[1].from # outcome[1].response[1].to
    /\ back = <<>>
    /\ LET r == outcome[1].response[1]
           v == validate(r.to, r.from, r.result)
       IN  back' = <<IF v # Pending THEN v
                     ELSE resolveAndConvert(table, r.to, r.from, r.result)>>
    /\ UNCHANGED <<table, arg, outcome, pipeline, converter, invalidator, config, provenance>>

NextResolve ==
    \/ \E r \in ResolveRequests : Resolve(r[1], r[2], r[3])
    \/ ResolveBack

SpecResolve == InitResolve /\ [][NextResolve]_vars

\* ====================================================================
\* convert on top of the pipeline: each client makes one call of convert
\* after another, and the call's getExchangeRates runs through the
\* actions of the pipeline.
\* ====================================================================

\* the convert call of client p goes on after its getExchangeRates call
\* ended in this step with last'.result
Continue(p) ==
    LET r == afterRates(last'.result, creq[p][1], creq[p][2], creq[p][3])
        c == Converted(creq[p], r.result, FALSE, 1, 1, last'.calls,
                       IF last'.result.kind = "ok" THEN last'.result.data ELSE 0)
    IN  IF r.act = "throw"
        THEN /\ out' = <<c>>
             /\ cpc' = [cpc EXCEPT ![p] = "idle"]
             /\ creq' = [creq EXCEPT ![p] = NoArg]
             /\ UNCHANGED <<convCache, cpend, returned, converts>>
        ELSE /\ cpend' = [cpend EXCEPT ![p] = <<c>>]
             /\ cpc' = [cpc EXCEPT ![p] = "convSet"]
             /\ out' = <<>>
             /\ UNCHANGED <<convCache, creq, returned, converts>>

\* the convert call of client p is still waiting
Waiting == out' = <<>> /\ UNCHANGED <<convCache, cpc, creq, cpend, returned, converts>>

\* Client p calls convert(from, to, amount): the checks, and the read of the
\* conversion cache
Convert(p, req) ==
    /\ cpc[p] = "idle"
    /\ converts < MaxConverts
    /\ converts' = converts + 1
    /\ last' = NoneEnded
    /\ UNCHANGED <<now, breaker, rateCache, pc, locals, consec, prevRun, started, resolver>>
    /\ UNCHANGED <<convCache, cpend, returned>>
    /\ LET v == validate(req[1], req[2], req[3])
           key == getConversionCacheKey(req[1], req[2], req[3])
       IN  IF v # Pending
           THEN /\ out' = <<Converted(req, v, FALSE, 0, 0, 0, 0)>>
                /\ UNCHANGED <<cpc, creq>>
           ELSE IF ConvCacheGet(convCache, key, now) # <<>>
           THEN /\ out' = <<Converted(req, Returned(ConvCacheGet(convCache, key, now)[1]),
                                      TRUE, 1, 0, 0, 0)>>
                /\ UNCHANGED <<cpc, creq>>
           ELSE /\ cpc' = [cpc EXCEPT ![p] = "rates"]
                /\ creq' = [creq EXCEPT ![p] = req]
                /\ out' = <<>>

\* The cache read of getExchangeRates, called by convert, resolves.
ConvertGetRates(p) ==
    /\ cpc[p] = "rates"
    /\ GetExchangeRates(p)
    /\ IF last'.result.kind = "none" THEN Waiting ELSE Continue(p)
    /\ UNCHANGED resolver

ConvertHttpSuccess(p, d) ==
    /\ HttpSuccess(p, d)
    /\ Waiting
    /\ UNCHANGED resolver

ConvertHttpError(p, st) ==
    /\ HttpError(p, st)
    /\ IF last'.result.kind = "none" THEN Waiting ELSE Continue(p)
    /\ UNCHANGED resolver

ConvertWake(p) ==
    /\ Wake(p)
    /\ Waiting
    /\ UNCHANGED resolver

\* a variant with a slip: a snapshot the request cannot be resolved against
\* is not kept in the cache
ConvertCacheSetDone_DropsUnusable(p) ==
    /\ pc[p] = "cacheSet"
    /\ rateCache' = IF afterRates(Ok(rates[p]), creq[p][1], creq[p][2], creq[p][3]).act = "throw"
                    THEN NoEntry
                    ELSE CacheSet(rates[p], now)
    /\ last' = Ended(Ok(rates[p]), calls[p], waits[p], trial[p], Ok(lastData[p]))
    /\ pc' = [pc EXCEPT ![p] = "idle"]
    /\ Forget(p)
    /\ UNCHANGED <<now, breaker, consec, prevRun, started>>
    /\ Continue(p)
    /\ UNCHANGED resolver

\* getExchangeRates returns the snapshot; convert resolves and converts
ConvertCacheSetDone(p) ==
    /\ CacheSetDone(p)
    /\ Continue(p)
    /\ UNCHANGED resolver

\* The write of the conversion cache resolves; convert returns the response.
ConvertSetDone(p) ==
    /\ cpc[p] = "convSet"
    /\ LET key == getConversionCacheKey(creq[p][1], creq[p][2], creq[p][3])
       IN  /\ convCache' = ConvCacheSet(convCache, key, cpend[p][1].result.response, now)
           /\ returned' = (key :> Computed(creq[p], cpend[p][1].result.response, now)) @@ returned
    /\ out' = cpend[p]
    /\ cpc' = [cpc EXCEPT ![p] = "idle"]
    /\ creq' = [creq EXCEPT ![p] = NoArg]
    /\ cpend' = [cpend EXCEPT ![p] = <<>>]
    /\ last' = NoneEnded
    /\ UNCHANGED <<now, breaker, rateCache, pc, locals, consec, prevRun, started, resolver, converts>>

ConvertTick ==
    /\ Tick
    /\ Waiting
    /\ UNCHANGED resolver

NextConvert ==
    \/ \E p \in Clients : \E req \in Requests : Convert(p, req) /\ UNCHANGED <<invalidator, config, provenance>>
    \/ \E p \in Clients : ConvertGetRates(p) /\ UNCHANGED <<invalidator, config, provenance>>
    \/ \E p \in Clients : \E d \in Snapshots : ConvertHttpSuccess(p, d) /\ UNCHANGED <<invalidator, config, provenance>>
    \/ \E p \in Clients : \E st \in ErrorStatuses : ConvertHttpError(p, st) /\ UNCHANGED <<invalidator, config, provenance>>
    \/ \E p \in Clients : ConvertWake(p) /\ UNCHANGED <<invalidator, config, provenance>>
    \/ \E p \in Clients : ConvertCacheSetDone(p) /\ UNCHANGED <<invalidator, config, provenance>>
    \/ \E p \in Clients : ConvertSetDone(p) /\ UNCHANGED <<invalidator, config, provenance>>
    \/ ConvertTick /\ UNCHANGED <<invalidator, config, provenance>>

SpecConvert == Init /\ [][NextConvert]_vars

\* ====================================================================
\* invalidateCache next to convert: one call of AppService.invalidateCache
\* runs while the client makes its calls of convert.  Both services hold
\* the one cache manager of the application (CACHE_MANAGER), so reset
\* empties the store of the conversions and of the snapshot alike.
\* ====================================================================
\* the calls of convert that are made next to invalidateCache
InvalidateRequests == {<<USD, UAH, Num(100)>>}

\* invalidateCache is called (line 346) and calls cacheManager.reset()
\* (line 348); `stale` records the entries stored at this moment (those of
\* them not written anew since, and their number), the number of convert
\* calls made, and whether a convert call is in flight
InvalidateCache ==
    /\ ipc = "idle"
    /\ ipc' = "reset"
    /\ stale' = [conv |-> DOMAIN convCache, rates |-> rateCache # NoEntry,
                 held |-> Cardinality(DOMAIN convCache) + (IF rateCache # NoEntry THEN 1 ELSE 0),
                 at |-> converts, quiet |-> \A p \in Clients : cpc[p] = "idle"]
    /\ last' = NoneEnded
    /\ Waiting
    /\ UNCHANGED <<now, breaker, rateCache, pc, locals, consec, prevRun, started, resolver>>

\* a variant with a slip: reset leaves the store as it is
ResetDone_KeepsEntries ==
    /\ ipc = "reset"
    /\ ipc' = "del"
    /\ last' = NoneEnded
    /\ Waiting
    /\ UNCHANGED <<now, breaker, rateCache, pc, locals, consec, prevRun, started, resolver, stale>>

\* reset resolves, the store is empty; CurrencyApiService.invalidateCache
\* is called (line 352) and calls cacheManager.del(CACHE_KEY) (line 215)
ResetDone ==
    /\ ipc = "reset"
    /\ ipc' = "del"
    /\ convCache' = <<>>
    /\ rateCache' = NoEntry
    /\ last' = NoneEnded
    /\ out' = <<>>
    /\ UNCHANGED <<cpc, creq, cpend, returned, converts>>
    /\ UNCHANGED <<now, breaker, pc, locals, consec, prevRun, started, resolver, stale>>

\* del resolves and invalidateCache returns; `stale` records whether
\* no convert call was in flight from the call to the return
DelDone ==
    /\ ipc = "del"
    /\ ipc' = "done"
    /\ rateCache' = NoEntry
    /\ stale' = [stale EXCEPT !.quiet = stale.quiet /\ converts = stale.at]
    /\ last' = NoneEnded
    /\ Waiting
    /\ UNCHANGED <<now, breaker, pc, locals, consec, prevRun, started, resolver>>

\* a write of the snapshot cache, or of the conversion cache under `key`,
\* puts a new entry in the place of the one that was there
SnapshotRewritten == stale' = [stale EXCEPT !.rates = FALSE] /\ UNCHANGED ipc
ConversionRewritten(key) == stale' = [stale EXCEPT !.conv = @ \ {key}] /\ UNCHANGED ipc

NextInvalidate ==
    \/ \E p \in Clients : \E req \in InvalidateRequests : Convert(p, req) /\ UNCHANGED <<invalidator, config, provenance>>
    \/ \E p \in Clients : ConvertGetRates(p) /\ UNCHANGED <<invalidator, config, provenance>>
    \/ \E p \in Clients : \E d \in Snapshots : ConvertHttpSuccess(p, d) /\ UNCHANGED <<invalidator, config, provenance>>
    \/ \E p \in Clients : \E st \in ErrorStatuses : ConvertHttpError(p, st) /\ UNCHANGED <<invalidator, config, provenance>>
    \/ \E p \in Clients : ConvertWake(p) /\ UNCHANGED <<invalidator, config, provenance>>
    \/ \E p \in Clients : ConvertCacheSetDone(p) /\ SnapshotRewritten /\ UNCHANGED <<config, provenance>>
    \/ \E p \in Clients :
          ConvertSetDone(p)
          /\ ConversionRewritten(getConversionCacheKey(creq[p][1], creq[p][2], creq[p][3]))
          /\ UNCHANGED <<config, provenance>>
    \/ ConvertTick /\ UNCHANGED <<invalidator, config, provenance>>
    \/ InvalidateCache /\ UNCHANGED <<config, provenance>>
    \/ ResetDone /\ UNCHANGED <<config, provenance>>
    \/ DelDone /\ UNCHANGED <<config, provenance>>

\* invalidateCache may be called with the breaker closed, or open as
\* failureThreshold failed calls of earlier requests, over by now, left it
InitInvalidate ==
    /\ \E open \in BOOLEAN :
          /\ circuitOpen = open
          /\ failureCount = (IF open THEN failureThreshold ELSE 0)
          /\ lastFailureTime = (IF open THEN 0 ELSE null)
          /\ consec = (IF open THEN failureThreshold ELSE 0)
          /\ started = (IF open THEN failureThreshold ELSE 0)
    /\ now = 0
    /\ rateCache = NoEntry
    /\ pc = [p \in Procs |-> "idle"]
    /\ attempt = [p \in Procs |-> 0]
    /\ wakeAt = [p \in Procs |-> 0]
    /\ rates = [p \in Procs |-> 0]
    /\ calls = [p \in Procs |-> 0]
    /\ waits = [p \in Procs |-> <<>>]
    /\ trial = [p \in Procs |-> FALSE]
    /\ lastData = [p \in Procs |-> 0]
    /\ last = NoneEnded
    /\ prevRun = 0
    /\ InitResolver
    /\ InitConverter
    /\ InitInvalidator
    /\ InitConfig
    /\ InitProvenance

SpecInvalidate == InitInvalidate /\ [][NextInvalidate]_vars

\* ====================================================================
\* convert with the fetch times recorded: for every snapshot and every
\* result the program holds, `origin` keeps the time the snapshot behind it
\* came from the provider.  The time to live is CACHE_TTL or one unit more,
\* so that an entry may be served in a later unit of time than it was
\* written in.  The store (Redis, app.module.ts lines 18-35) outlives the
\* service: it is empty at the start, or holds a snapshot that an earlier
\* instance of the service fetched and wrote at time 0.  invalidateCache
\* is not called.
\* ====================================================================
\* the calls of convert that are made while the fetch times are recorded
StaleRequests == {<<USD, UAH, Num(100)>>, <<EUR, UAH, Num(100)>>}

\* what `origin` records: the fetch time of the snapshot a request holds
\* while it writes the cache (fetched), of the snapshot in the cache (snap),
\* of the snapshot behind the response awaiting its cache write (pend),
\* behind each conversion entry (conv) and behind the response returned
\* in the last step (out); and whether every cache write so far resolved
\* in the unit of time in which it was issued (atomic)
Origins(snap) ==
    [fetched |-> <<>>, snap |-> snap, pend |-> <<>>, conv |-> <<>>, out |-> <<>>,
     atomic |-> TRUE]

InitStale ==
    /\ cacheTtl \in {CACHE_TTL, CACHE_TTL + 1}
    /\ now = 0
    /\ \E d \in {0} \cup Snapshots :
          /\ rateCache = (IF d = 0 THEN NoEntry ELSE CacheSet(d, 0))
          /\ origin = Origins(IF d = 0 THEN <<>> ELSE <<0>>)
    /\ failureCount = 0
    /\ lastFailureTime = null
    /\ circuitOpen = FALSE
    /\ pc = [p \in Procs |-> "idle"]
    /\ attempt = [p \in Procs |-> 0]
    /\ wakeAt = [p \in Procs |-> 0]
    /\ rates = [p \in Procs |-> 0]
    /\ calls = [p \in Procs |-> 0]
    /\ waits = [p \in Procs |-> <<>>]
    /\ trial = [p \in Procs |-> FALSE]
    /\ lastData = [p \in Procs |-> 0]
    /\ last = NoneEnded
    /\ consec = 0
    /\ prevRun = 0
    /\ started = 0
    /\ InitResolver
    /\ InitConverter
    /\ InitInvalidator

\* the step changes `origin` to o and nothing else of the history kept
\* next to convert
Recorded(o) == origin' = o /\ UNCHANGED <<invalidator, config>>

\* the response that goes to its cache write in this step, if one does,
\* was computed from the snapshot fetched at t (<<t>>)
Computes(p, t) == IF cpc'[p] = "convSet" THEN t ELSE <<>>

\* convert is called: a response served from the conversion cache comes
\* from the snapshot its entry was computed from
TracedConvert(p, req) ==
    /\ Convert(p, req)
    /\ Recorded([origin EXCEPT
                   !.out = IF out' # <<>> /\ out'[1].hit
                           THEN <<origin.conv[getConversionCacheKey(req[1], req[2], req[3])]>>
                           ELSE <<>>])

\* getExchangeRates is called: a snapshot served from the cache is the one
\* that was written there
TracedGetRates(p) ==
    /\ ConvertGetRates(p)
    /\ Recorded([origin EXCEPT !.pend = Computes(p, origin.snap), !.out = <<>>])

\* the transport brings a snapshot
TracedHttpSuccess(p, d) ==
    /\ ConvertHttpSuccess(p, d)
    /\ Recorded([origin EXCEPT !.fetched = <<now>>, !.out = <<>>])

TracedHttpError(p, st) ==
    /\ ConvertHttpError(p, st)
    /\ Recorded([origin EXCEPT !.out = <<>>])

TracedWake(p) ==
    /\ ConvertWake(p)
    /\ Recorded([origin EXCEPT !.out = <<>>])

\* the snapshot fetched is written to the cache and resolved against
TracedCacheSetDone(p) ==
    /\ ConvertCacheSetDone(p)
    /\ Recorded([origin EXCEPT !.snap = origin.fetched, !.fetched = <<>>,
                               !.pend = Computes(p, origin.fetched), !.out = <<>>])

\* the response is written to the conversion cache and returned
TracedSetDone(p) ==
    /\ ConvertSetDone(p)
    /\ Recorded([origin EXCEPT
                   !.conv = (getConversionCacheKey(creq[p][1], creq[p][2], creq[p][3])
                                :> origin.pend[1]) @@ @,
                   !.out = origin.pend,
                   !.pend = <<>>])

\* the clock advances, while a cache write is under way or not
TracedTick ==
    /\ ConvertTick
    /\ Recorded([origin EXCEPT
                   !.out = <<>>,
                   !.atomic = @ /\ \A p \in Clients : pc[p] # "cacheSet" /\ cpc[p] # "convSet"])

NextStale ==
    \/ \E p \in Clients : \E req \in StaleRequests : TracedConvert(p, req)
    \/ \E p \in Clients : TracedGetRates(p)
    \/ \E p \in Clients : \E d \in Snapshots : TracedHttpSuccess(p, d)
    \/ \E p \in Clients : \E st \in ErrorStatuses : TracedHttpError(p, st)
    \/ \E p \in Clients : TracedWake(p)
    \/ \E p \in Clients : TracedCacheSetDone(p)
    \/ \E p \in Clients : TracedSetDone(p)
    \/ TracedTick

SpecStale == InitStale /\ [][NextStale]_vars

\* ====================================================================
\* Properties
\* ====================================================================
\* a getExchangeRates call starts in this step (its cache read resolves)
CallStarts == started' = started + 1

\* the snapshot cache misses now
CacheMiss == CacheGet(rateCache, now) = 0

\* request p makes a transport call in this step
Transport(p) == pc'[p] = "http" /\ pc[p] # "http"

\* request p's admitted call ends in failure / in success in this step
FailsNow(p) == pc[p] = "http" /\ pc'[p] = "idle"
SucceedsNow(p) == pc[p] = "http" /\ pc'[p] = "cacheSet"

\* the backoff delays before attempts 2..n+1
Backoffs(n) == [k \in 1..n |-> delay * 2 ^ (k - 1)]

RECURSIVE SumSeq(_)
SumSeq(w) == IF w = <<>> THEN 0 ELSE w[1] + SumSeq(Tail(w))

\* the client-class statuses
ClientClass == 400..499

\* the last call that ended failed on a client-class / on a transient response
LastEndedOnClientError ==
    last.resp.kind = "AxiosError" /\ last.resp.status \in ClientClass
LastEndedOnTransientError ==
    last.resp.kind = "AxiosError" /\ last.resp.status \notin ClientClass

\* C1: after failureThreshold admitted calls have failed with no success in
\* between, every call that starts on a cache miss while
\* now - lastFailureTime < circuitTimeout is rejected with a 503 error and no
\* request makes a transport call in that step.
C1_OpenRejectsWithoutTransport ==
    [][(/\ CallStarts
        /\ CacheMiss
        /\ consec >= failureThreshold
        /\ lastFailureTime # null
        /\ now - lastFailureTime < circuitTimeout)
       => (/\ last' = Ended(CircuitOpenError, 0, <<>>, FALSE, NoResult)
           /\ last'.result.status = 503
           /\ \A p \in Procs : ~Transport(p)
           /\ UNCHANGED <<pc, calls, attempt, breaker>>)]_vars

C1_Witness ==
    /\ last.result = CircuitOpenError
    /\ consec >= failureThreshold
    /\ lastFailureTime # null
    /\ now - lastFailureTime < circuitTimeout

\* C2: once the breaker is open and circuitTimeout has elapsed, at most one
\* call admitted with the circuit open (a trial) is in flight at any time.
C2_AtMostOneTrialInFlight ==
    Cardinality({p \in Procs : pc[p] \in {"http", "sleep"} /\ trial[p]}) <= 1

\* C3: an admitted call that ends in failure adds exactly 1 to failureCount,
\* whatever the number of attempts it made; a failed attempt that is followed
\* by a backoff sleep leaves the breaker state unchanged.
C3_OneIncrementPerOuterFailure ==
    [][\A p \in Procs :
          /\ FailsNow(p) => failureCount' = failureCount + 1
          /\ (pc[p] = "http" /\ pc'[p] = "sleep") => UNCHANGED breaker
          /\ (pc[p] = "sleep" /\ pc'[p] = "http") => UNCHANGED breaker]_vars

C3_Witness ==
    /\ last.result = ExhaustedError
    /\ last.calls = retries
    /\ failureCount = 1

\* C4: with concurrent calls, failureCount is the number of admitted calls
\* that failed since the last admitted call that succeeded (no update is lost
\* or doubled), and the circuit is open whenever failureCount has reached
\* failureThreshold.
C4_NoLostFailureUpdates ==
    /\ failureCount = consec
    /\ failureCount >= failureThreshold => circuitOpen

\* one call has failed while another call, asleep since before that failure,
\* is still in flight
C4_Witness ==
    /\ failureCount >= 1
    /\ \E p \in Procs : pc[p] = "sleep" /\ wakeAt[p] <= lastFailureTime

\* C5: when a call admitted with the circuit open succeeds, the breaker is
\* closed at once (failureCount 0, lastFailureTime null, circuitOpen false);
\* and a call that starts on a cache miss while the breaker is in that state
\* is passed to the transport.
C5_TrialSuccessCloses ==
    [][/\ \A p \in Procs :
             (SucceedsNow(p) /\ trial[p])
             => (failureCount' = 0 /\ lastFailureTime' = null /\ ~circuitOpen')
       /\ (CallStarts /\ CacheMiss /\ failureCount = 0 /\ lastFailureTime = null)
          => (\E p \in Procs : Transport(p) /\ calls'[p] = 1)]_vars

C5_Witness ==
    /\ last.trial
    /\ last.result.kind = "ok"
    /\ failureCount = 0
    /\ lastFailureTime = null
    /\ ~circuitOpen

\* C6: when a call admitted with the circuit open fails, the circuit is open
\* afterwards and lastFailureTime is the time of that failure.
C6_TrialFailureReopens ==
    [][\A p \in Procs :
          (FailsNow(p) /\ trial[p]) => (circuitOpen' /\ lastFailureTime' = now)]_vars

\* C7: a success resets the count (no failure since the last success means
\* failureCount = 0 and a closed circuit), and the circuit is open only when
\* at least failureThreshold admitted calls have failed since the last success.
C7_ConsecutiveFailuresOnly ==
    /\ consec = 0 => (failureCount = 0 /\ ~circuitOpen)
    /\ circuitOpen => consec >= failureThreshold

\* failures, a success, failures again: failureThreshold failures in all,
\* but not in a row, and the circuit is closed
C7_Witness ==
    /\ prevRun >= 1
    /\ consec >= 1
    /\ prevRun + consec >= failureThreshold
    /\ ~circuitOpen

\* C8, as stated: a call that ends on a client-class response made exactly
\* one transport call and slept no backoff, and its error carries the status.
C8_ExactlyOneTransportCall ==
    LastEndedOnClientError
    => (/\ last.calls = 1
        /\ last.waits = <<>>
        /\ last.result = ClientError(last.resp.status))

\* C8, amended: a client-class response at attempt k ends the call at once:
\* the call made exactly k transport calls, slept only the k - 1 backoffs
\* before attempt k, and its error carries the provider's status.
C8_ClientErrorEndsRetrier ==
    LastEndedOnClientError
    => (/\ last.calls = Len(last.waits) + 1
        /\ last.calls <= retries
        /\ last.waits = Backoffs(last.calls - 1)
        /\ last.result = ClientError(last.resp.status)
        /\ last.result.status = last.resp.status)

C8_Witness ==
    /\ LastEndedOnClientError
    /\ last.calls = 2

\* C9: a call whose attempts all fail with a transient error makes exactly
\* `retries` transport calls, sleeps delay * 2^(k-1) between attempt k and
\* attempt k+1 and nothing else, and ends with a 503 HttpException that is
\* none of the per-attempt errors; attempt k+1 is never issued before the
\* backoffs slept so far have elapsed.
C9_ExhaustedRetries ==
    /\ LastEndedOnTransientError
       => (/\ last.calls = retries
           /\ last.waits = Backoffs(retries - 1)
           /\ last.result.kind = "HttpException"
           /\ last.result.status = 503
           /\ last.result \notin {AxiosError(st) : st \in ErrorStatuses})
    /\ \A p \in Procs :
          pc[p] \in {"http", "sleep"}
          => (/\ calls[p] = attempt[p]
              /\ waits[p] = Backoffs(Len(waits[p]))
              /\ pc[p] = "http" => (Len(waits[p]) = attempt[p] - 1 /\ now >= SumSeq(waits[p]))
              /\ pc[p] = "sleep" => (Len(waits[p]) = attempt[p] /\ wakeAt[p] >= SumSeq(waits[p])))

C9_Witness ==
    /\ LastEndedOnTransientError
    /\ last.result = ExhaustedError
    /\ last.waits = <<1, 2>>

\* C10: a call whose attempts 1..k-1 fail with transient errors and whose
\* attempt k succeeds returns the data of attempt k and has made exactly k
\* transport calls: one more than the backoffs it slept.
C10_SuccessEndsRetrier ==
    /\ last.resp.kind = "ok"
       => (/\ last.result = Ok(last.resp.data)
           /\ last.calls = Len(last.waits) + 1
           /\ last.calls <= retries
           /\ last.waits = Backoffs(last.calls - 1))
    /\ \A p \in Procs :
          pc[p] = "cacheSet"
          => (rates[p] = lastData[p] /\ calls[p] = attempt[p]
              /\ calls[p] = Len(waits[p]) + 1)

C10_Witness ==
    /\ last.resp.kind = "ok"
    /\ last.calls = retries
    /\ last.result.data = NumSnapshots

\* C12: a getExchangeRates call that hits the snapshot cache returns the
\* cached snapshot, makes no transport call and leaves the breaker unchanged,
\* whatever the breaker's phase; the cache write of a call that fetched
\* successfully stores exactly the fetched snapshot, with TTL = cacheTtl.
C12_CacheHitAndFill ==
    [][/\ (CallStarts /\ ~CacheMiss)
          => (/\ last' = Ended(Ok(rateCache.val), 0, <<>>, FALSE, NoResult)
              /\ now < rateCache.exp
              /\ \A p \in Procs : ~Transport(p)
              /\ UNCHANGED <<breaker, rateCache, pc, calls>>)
       /\ \A p \in Procs :
             (pc[p] = "cacheSet" /\ pc'[p] = "idle")
             => (/\ rateCache' = [val |-> lastData[p], exp |-> now + cacheTtl]
                 /\ last'.result = Ok(lastData[p]))]_vars

\* a cache hit while the circuit is open and still rejecting
C12_Witness ==
    /\ last.result.kind = "ok"
    /\ last.calls = 0
    /\ circuitOpen
    /\ now - lastFailureTime < circuitTimeout

\* C13: a getExchangeRates call that ends in an error (rejected by the
\* breaker, 4xx, retries exhausted) leaves the snapshot cache unchanged; the
\* cache changes only in the step that ends a call which fetched successfully.
C13_CacheWrittenOnlyOnSuccess ==
    [][/\ last'.result.kind = "HttpException" => rateCache' = rateCache
       /\ rateCache' # rateCache => (last'.result.kind = "ok" /\ last'.resp.kind = "ok")]_vars

\* the cache holds an entry and a call has just failed
C13_Witness ==
    /\ last.result = ExhaustedError
    /\ rateCache.val # 0

\* C26: the breaker leaves OPEN only through the success of a trial call,
\* one admitted with the circuit open after circuitTimeout had elapsed: a
\* call admitted before the breaker opened does not close it by succeeding.
C26_OnlyTrialCloses ==
    [][(circuitOpen /\ ~circuitOpen')
       => \E p \in Procs : SucceedsNow(p) /\ trial[p]]_vars

\* C27: a call rejected by the open breaker leaves the failure counter, the
\* last-failure timestamp and the open flag as they were.
C27_RejectionLeavesBreaker ==
    [][(CallStarts /\ last'.result = CircuitOpenError)
       => (/\ failureCount' = failureCount
           /\ lastFailureTime' = lastFailureTime
           /\ circuitOpen' = circuitOpen)]_vars

\* a call was rejected late in the open window, which still ends on time
C27_Witness ==
    /\ last.result = CircuitOpenError
    /\ now > lastFailureTime
    /\ failureCount = failureThreshold

\* the step is the start of a call that misses the cache with the circuit
\* open, circuitTimeout or more after the last recorded failure
LateCallStarts ==
    /\ CallStarts
    /\ CacheMiss
    /\ circuitOpen
    /\ lastFailureTime # null
    /\ now - lastFailureTime >= circuitTimeout

\* the model has come to its end before a call could be admitted: MaxCalls
\* calls were made, or the clock is at its horizon and there a call is still
\* served from the cache or rejected, or the clock is past the horizon,
\* where no call starts
HorizonReached ==
    \/ started = MaxCalls
    \/ now > MaxTime
    \/ now = MaxTime /\ (\/ CacheGet(rateCache, now) # 0
                         \/ CircuitRejects(circuitOpen, lastFailureTime, now))

\* C28: the breaker does not stay open for ever.  A call that starts on a
\* cache miss circuitTimeout or more after the last recorded failure is
\* admitted to the transport as a trial; and while the clock runs and
\* callers go on calling, from every state with the circuit open a call is
\* at the transport later on, unless the calls or the clock of the model
\* run out first.
C28_AdmittedAfterTimeout ==
    /\ [][LateCallStarts
          => (/\ \E p \in Procs : Transport(p) /\ trial'[p]
              /\ last' = NoneEnded)]_vars
    /\ circuitOpen ~> ((\E p \in Procs : pc[p] = "http") \/ HorizonReached)

\* a call admitted with the circuit open, exactly circuitTimeout after the
\* last failure, is at the transport
C28_Witness ==
    /\ circuitOpen
    /\ now - lastFailureTime = circuitTimeout
    /\ \E p \in Procs : pc[p] = "http" /\ trial[p] /\ attempt[p] = 1

\* the retry budget of the calls in flight and of the call that ended last
RetryBudgetKept ==
    /\ \A p \in Procs :
          /\ calls[p] <= retries
          /\ Len(waits[p]) <= retries - 1
          /\ pc[p] = "http" => (attempt[p] = calls[p] /\ Len(waits[p]) = calls[p] - 1)
          /\ pc[p] = "sleep" => (/\ attempt[p] < retries
                                 /\ Len(waits[p]) = calls[p]
                                 /\ wakeAt[p] <= now + waits[p][Len(waits[p])])
          /\ pc[p] = "cacheSet" => calls[p] \in 1..retries
    /\ last.calls <= retries
    /\ Len(last.waits) <= retries - 1

\* C29: every getExchangeRates call ends, with a snapshot or with an error,
\* provided each transport call comes back: the calls made, MaxCalls at
\* most, are all over from some time on; a call makes at most `retries` transport calls and sleeps at
\* most retries - 1 backoff delays, and a sleeping call goes on to its next
\* attempt when its timer fires, whatever the breaker has become meanwhile.
C29_EveryCallTerminates ==
    /\ []RetryBudgetKept
    /\ <>[](\A p \in Runners : pc[p] = "idle")
    /\ [][\A p \in Runners :
            (pc[p] = "sleep" /\ pc'[p] # "sleep") => (pc'[p] = "http" /\ calls'[p] = calls[p] + 1)]_vars

\* a call is at its last attempt while the breaker, opened meanwhile by
\* other calls, rejects new ones
C29_Witness ==
    \E p \in Procs :
        /\ pc[p] = "http"
        /\ calls[p] = retries
        /\ ~trial[p]
        /\ CircuitRejects(circuitOpen, lastFailureTime, now)

\* C30: the breaker starts closed with failure counter 0; in every state
\* the open flag is set exactly when the failure counter is at least
\* failureThreshold, and the last-failure timestamp is absent exactly when
\* the failure counter is 0.
C30_BreakerStateConsistent ==
    /\ started = 0 => (failureCount = 0 /\ ~circuitOpen /\ lastFailureTime = null)
    /\ circuitOpen <=> failureCount >= failureThreshold
    /\ lastFailureTime = null <=> failureCount = 0

\* a failed trial took the counter beyond the threshold
C30_Witness ==
    /\ circuitOpen
    /\ failureCount > failureThreshold
    /\ lastFailureTime >= circuitTimeout

\* C31: a call that ends on a client-class (4xx) response is a failure for
\* the breaker just as a call that ran out of retries is: the step adds 1 to
\* the failure counter and sets the last-failure timestamp to the present
\* time, and the circuit is open after it when it is the failureThreshold-th
\* failed call in a row; so failureThreshold calls in a row that end on 4xx
\* open the breaker.
C31_ClientErrorCountsAsFailure ==
    [][\A p \in Procs :
          FailsNow(p)
          => (/\ last'.resp.kind = "AxiosError"
              /\ (last'.resp.status \in ClientClass
                  => last'.result = ClientError(last'.resp.status))
              /\ (last'.resp.status \notin ClientClass => last'.result = ExhaustedError)
              /\ failureCount' = failureCount + 1
              /\ lastFailureTime' = now
              /\ (consec + 1 >= failureThreshold => circuitOpen'))]_vars

\* failureThreshold calls have failed before any backoff sleep could end,
\* each of them on a 4xx response at its first attempt, and the circuit is
\* open
C31_Witness ==
    /\ now = 0
    /\ started = failureThreshold
    /\ LastEndedOnClientError
    /\ last.calls = 1
    /\ failureCount = failureThreshold
    /\ lastFailureTime = 0
    /\ circuitOpen

\* the requests whose call is past the cache read and not yet over
InFlight == {p \in Procs : pc[p] # "idle"}

\* request p's cache write resolves and its call returns in this step
ReturnsNow(p) == pc[p] = "cacheSet" /\ pc'[p] = "idle"

\* C32: fetches are not coalesced.  A call that misses the snapshot cache
\* with the circuit closed goes to the transport, whatever calls are in
\* flight already; a call that returns gives its caller the snapshot its own
\* transport call brought; and each cache write puts the writer's snapshot
\* in the cache, which changes in no other step, so that after two
\* overlapping calls the cache holds the snapshot written last.
C32_FetchesNotCoalesced ==
    [][/\ (CallStarts /\ CacheMiss /\ ~circuitOpen)
          => (/\ \E p \in Procs \ InFlight : Transport(p) /\ calls'[p] = 1
              /\ Cardinality(InFlight') = Cardinality(InFlight) + 1
              /\ last' = NoneEnded)
       /\ \A p \in Procs :
             ReturnsNow(p)
             => (/\ calls[p] >= 1
                 /\ last'.result = Ok(lastData[p])
                 /\ rateCache' = CacheSet(lastData[p], now))
       /\ rateCache' # rateCache => \E p \in Procs : ReturnsNow(p)]_vars

\* two calls started at time 0 and both missed the cache; one has returned
\* its snapshot and the cache holds it, the other is about to write the
\* different snapshot it fetched over it
C32_Witness ==
    /\ now = 0
    /\ started = 2
    /\ ~circuitOpen
    /\ failureCount = 0
    /\ last.result.kind = "ok"
    /\ last.calls = 1
    /\ CacheGet(rateCache, now) = last.result.data
    /\ \E p \in Procs :
          /\ pc[p] = "cacheSet"
          /\ calls[p] = 1
          /\ rates[p] # CacheGet(rateCache, now)

\* --------------------------------------------------------------------
\* The request resolved under SpecResolve, and what the table holds for it
\* --------------------------------------------------------------------
Resolved == arg # NoArg

\* how the request ended
Outcome == IF outcome = <<>> THEN Pending ELSE outcome[1]
FromCode == CURRENCY_CODES[arg[1]]
ToCode == CURRENCY_CODES[arg[2]]
Amount == arg[3]
Direct == FromCode = UAH_CODE \/ ToCode = UAH_CODE
Foreign == IF FromCode = UAH_CODE THEN ToCode ELSE FromCode

\* the first record of the table quoting `code` against the base currency
RecordOf(code) == find(table, code, UAH_CODE)

\* a rate is found for the request: the pair's record, or both legs
RateFound ==
    IF Direct THEN RecordOf(Foreign) # <<>>
    ELSE RecordOf(FromCode) # <<>> /\ RecordOf(ToCode) # <<>>

PresentElse(x, y) == IF x = <<>> THEN y ELSE x
Positive(x) == x # <<>> /\ x[1].n > 0

\* the rate value the direction of the request requires
RequiredValue ==
    IF ToCode = UAH_CODE
    THEN PresentElse(RecordOf(Foreign)[1].rateBuy, RecordOf(Foreign)[1].rateCross)
    ELSE IF FromCode = UAH_CODE
    THEN PresentElse(RecordOf(Foreign)[1].rateSell, RecordOf(Foreign)[1].rateCross)
    ELSE findRate(table, FromCode, ToCode)[1].rateCross

\* the snapshot [{A, base, buy 37.5, sell 38.0}]
BuySellOnly == <<RateRecord(840, UAH_CODE, Num(840), <<Rat(375, 10)>>, <<Rat(380, 10)>>, <<>>)>>

\* C17: the engine selects the rate field by direction: with the base
\* currency as target the result is amount * (buy rate if present, else
\* cross rate); else with the base currency as source it is amount / (sell
\* rate if present, else cross rate); otherwise it is amount * cross rate
\* (rounded to 4 decimals).  On [{A, base, buy 37.5, sell 38.0}],
\* 100 A gives 3750 and 3800 of the base currency give 100 A.
C17_DirectionSelection ==
    /\ (Resolved /\ RateFound /\ Positive(RequiredValue))
       => /\ Outcome.kind = "ok"
          /\ Outcome.response[1].result =
                toFixed(IF ToCode = UAH_CODE THEN RatMul(Amount, RequiredValue[1])
                        ELSE IF FromCode = UAH_CODE THEN RatDiv(Amount, RequiredValue[1])
                        ELSE RatMul(Amount, RequiredValue[1]), 4)
    /\ (table = BuySellOnly /\ arg = <<USD, UAH, Num(100)>>)
       => Outcome.response[1].result = Num(3750)
    /\ (table = BuySellOnly /\ arg = <<UAH, USD, Num(3800)>>)
       => Outcome.response[1].result = Num(100)

\* 3800 of the base currency were sold for 100 A at the sell rate 38.0
C17_Witness ==
    /\ table = BuySellOnly
    /\ arg = <<UAH, USD, Num(3800)>>
    /\ Outcome.kind = "ok"
    /\ Outcome.response[1].result = Num(100)

\* C18: for two distinct non-base currencies A and B that both have a
\* base-relative record, the result is amount * (A.buy ?? A.cross ?? 1) /
\* (B.sell ?? B.cross ?? 1), rounded, where ?? falls back only when the
\* field is absent.
C18_CrossRateFactor ==
    (Resolved /\ ~Direct /\ FromCode # ToCode /\ RateFound)
    => LET a == RecordOf(FromCode)[1]
           b == RecordOf(ToCode)[1]
           up == PresentElse(PresentElse(a.rateBuy, a.rateCross), <<Num(1)>>)[1]
           dn == PresentElse(PresentElse(b.rateSell, b.rateCross), <<Num(1)>>)[1]
       IN  dn.n # 0
           => /\ Outcome.kind = "ok"
              /\ Outcome.response[1].result = toFixed(RatMul(Amount, RatDiv(up, dn)), 4)

\* C19: when the rate value the direction requires is absent, zero or
\* negative, convert fails with the incomplete-rate-data error, which is not
\* the rate-not-found error, and returns no result.
C19_NonPositiveRateFails ==
    (Resolved /\ RateFound /\ ~Positive(RequiredValue))
    => /\ Outcome = IncompleteRateData
       /\ Outcome # RateNotFound

Unpopulated(r) == r.rateBuy = <<>> /\ r.rateSell = <<>> /\ r.rateCross = <<>>

\* C20: a convert whose resolution depends on a record with none of the
\* buy, sell and cross rates populated (the pair's record, or either leg of
\* a cross-rate) returns no result.
C20_UnpopulatedRecordNeverUsed ==
    (/\ Resolved
     /\ RateFound
     /\ IF Direct THEN Unpopulated(RecordOf(Foreign)[1])
        ELSE Unpopulated(RecordOf(FromCode)[1]) \/ Unpopulated(RecordOf(ToCode)[1]))
    => Outcome.kind # "ok"

\* the places of the table where `code` is quoted against the base currency
Matching(code) ==
    {i \in 1..Len(table) :
        table[i].currencyCodeA = code /\ table[i].currencyCodeB = UAH_CODE}

\* the first of them in snapshot order
First(code) == table[CHOOSE i \in Matching(code) : \A j \in Matching(code) : i <= j]

\* C21: rates are found by base-relative lookup only.  With the base
\* currency on one side the request ends as it would on a snapshot holding
\* only the first record, in snapshot order, that quotes the foreign code
\* against the base code, and fails with 404 "rate not found" when there is
\* none; with the base currency on neither side it ends as it would on the
\* first such records of the two legs, and fails with 404 when either is
\* missing.  A record for the reversed pair is not used, and of duplicates
\* the first counts.
C21_BaseRelativeFirstMatch ==
    Resolved =>
        IF Direct
        THEN IF Matching(Foreign) = {} THEN Outcome = RateNotFound
             ELSE Outcome = resolveAndConvert(<<First(Foreign)>>, arg[1], arg[2], Amount)
        ELSE IF Matching(FromCode) = {} \/ Matching(ToCode) = {} THEN Outcome = RateNotFound
             ELSE Outcome = resolveAndConvert(<<First(FromCode), First(ToCode)>>,
                                              arg[1], arg[2], Amount)

\* the reversed pair stands first and the pair is quoted twice: 100 A were
\* converted at the buy rate of the first record that quotes A
C21_Witness ==
    /\ table = <<Reversed(840), Requoted(840), Quoted(840)>>
    /\ arg = <<USD, UAH, Num(100)>>
    /\ Outcome.response # <<>>
    /\ Outcome.response[1].result = Num(3700)

\* the request names one currency as source and as target
SameCurrency == Resolved /\ FromCode = ToCode

\* the table holds a record that quotes the base currency against itself
BaseQuoted ==
    \E i \in 1..Len(table) :
        table[i].currencyCodeA = UAH_CODE /\ table[i].currencyCodeB = UAH_CODE

\* the rate at which the first record of `code` buys, and sells: the buy
\* (sell) rate, else the cross rate
BuyElseCross(code) == PresentElse(First(code).rateBuy, First(code).rateCross)
SellElseCross(code) == PresentElse(First(code).rateSell, First(code).rateCross)

\* C35: a conversion of a currency into itself goes the way of any other.
\* For the base currency it ends with the rate-not-found error on every
\* snapshot without a record that quotes the base currency against itself
\* (and only there).  For another currency X with a record against the base
\* currency, whose buy-else-cross and sell-else-cross rates are there and
\* positive, it returns the amount times the first divided by the second,
\* rounded to 4 decimals: less than the amount when X is bought below the
\* rate it is sold at, 98.6842 for 100 X at buy 37.5 and sell 38.0.
C35_SameCurrencyNotSpecial ==
    /\ (SameCurrency /\ FromCode = UAH_CODE)
       => (Outcome = RateNotFound <=> ~BaseQuoted)
    /\ (/\ SameCurrency
        /\ FromCode # UAH_CODE
        /\ Matching(FromCode) # {}
        /\ Positive(BuyElseCross(FromCode))
        /\ Positive(SellElseCross(FromCode)))
       => LET b == BuyElseCross(FromCode)[1]
              s == SellElseCross(FromCode)[1]
          IN  /\ Outcome = Returned(Response(arg[1], arg[2], Amount,
                                             toFixed(RatDiv(RatMul(Amount, b), s), 4)))
              /\ b.n * s.d < s.n * b.d
                 => Outcome.response[1].result.n * Amount.d
                        < Amount.n * Outcome.response[1].result.d
    /\ (table = BuySellOnly /\ arg = <<USD, USD, Num(100)>>)
       => Outcome.response # <<>> /\ Outcome.response[1].result = Rat(986842, 10000)

\* 100 X were converted into X at buy 37.5 and sell 38.0, and 98.6842 X
\* came out
C35_Witness ==
    /\ table = BuySellOnly
    /\ arg = <<USD, USD, Num(100)>>
    /\ Outcome.kind = "ok"
    /\ Outcome.response[1].result = Rat(986842, 10000)
    /\ Outcome.response[1].result # Amount

\* how the request for the way back ended
Back == IF back = <<>> THEN Pending ELSE back[1]

\* both ways gave a result
WentBack == back # <<>> /\ Back.response # <<>>

\* the number an amount is multiplied by on the way from `fromCode` to
\* `toCode`, taken from the first records of the table that quote them
Factor(fromCode, toCode) ==
    IF toCode = UAH_CODE
    THEN PresentElse(First(fromCode).rateBuy, First(fromCode).rateCross)[1]
    ELSE IF fromCode = UAH_CODE
    THEN RatDiv(Num(1), PresentElse(First(toCode).rateSell, First(toCode).rateCross)[1])
    ELSE RatDiv(OrElse(OrElse(First(fromCode).rateBuy, First(fromCode).rateCross), <<Num(1)>>)[1],
                OrElse(OrElse(First(toCode).rateSell, First(toCode).rateCross), <<Num(1)>>)[1])

\* the way there and the way back use the same rate
SameRateBothWays == RatMul(Factor(FromCode, ToCode), Factor(ToCode, FromCode)) = Num(1)

\* the amount that came back, in units of 0.0001
CameBack == Back.response[1].result.n * (10000 \div Back.response[1].result.d)

\* C22 as stated: converting X from A to B and the result from B to A
\* against the same snapshot gives X within the rounding tolerance (0.00005
\* for each of the two roundings).
C22_RoundTripWithinRounding ==
    WentBack => Abs(CameBack - 10000 * Amount.n) <= 1

\* C22, amended: converting X from A to B and the result from B to A
\* against the same snapshot gives X times the factors of the two ways,
\* each product rounded to 4 decimals.  When the two ways use the same rate
\* (a record with a cross rate only, or buy = sell) the factors cancel and
\* the amount that comes back is X within 0.00005 * (1 + factor of the way
\* back); when the buy rate is below the sell rate it is lower than X by the
\* spread: 100 A at buy 37.5 and sell 38.0 come back as 98.6842.
C22_RoundTripUpToSpread ==
    /\ WentBack =>
          /\ Back.response[1].result =
                toFixed(RatMul(toFixed(RatMul(Amount, Factor(FromCode, ToCode)), 4),
                               Factor(ToCode, FromCode)), 4)
          /\ Back.response[1].from = arg[2] /\ Back.response[1].to = arg[1]
          /\ SameRateBothWays =>
                2 * Abs(CameBack - 10000 * Amount.n) * Factor(ToCode, FromCode).d
                    <= Factor(ToCode, FromCode).d + Factor(ToCode, FromCode).n
    /\ (table = BuySellOnly /\ arg = <<USD, UAH, Num(100)>> /\ back # <<>>)
          => Back.response # <<>> /\ Back.response[1].result = Rat(986842, 10000)

\* 100 of the base currency went to A and back at one rate, 37.8, and
\* 99.9999 came back
C22_Witness ==
    /\ WentBack
    /\ SameRateBothWays
    /\ arg = <<UAH, USD, Num(100)>>
    /\ CameBack = 999999

\* --------------------------------------------------------------------
\* The convert calls under SpecConvert
\* --------------------------------------------------------------------
\* the convert call that ended in the last step
Out == IF out = <<>> THEN NoneConverted ELSE out[1]

\* a call of convert with the arguments r is made in this step
CalledWith(r) ==
    /\ converts' = converts + 1
    /\ \/ Out'.req = r
       \/ \E p \in Clients : cpc[p] = "idle" /\ cpc'[p] # "idle" /\ creq'[p] = r

KeyOf(r) == <<"conversion", toUpperCase(r[1]), toUpperCase(r[2]), r[3]>>

\* a symbol without a numeric code, or an amount that is not positive
InvalidRequest(r) ==
    \/ r[3].n <= 0
    \/ toUpperCase(r[1]) \notin DOMAIN CURRENCY_CODES
    \/ toUpperCase(r[2]) \notin DOMAIN CURRENCY_CODES

\* C11: a convert call with the arguments of an earlier call that returned
\* a computed result, made before that result's cache entry expires, returns
\* the same result and triggers no upstream fetch: no getExchangeRates call
\* and no transport call.
C11_IdempotentWithinTtl ==
    [][\A r \in Requests :
          (/\ CalledWith(r)
           /\ KeyOf(r) \in DOMAIN returned
           /\ returned[KeyOf(r)].req = r
           /\ now < returned[KeyOf(r)].at + cacheTtl)
          => (/\ Out'.req = r
              /\ Out'.result.kind = "ok"
              /\ Out'.result.response = returned[KeyOf(r)].response
              /\ started' = started
              /\ \A p \in Procs : ~Transport(p)
              /\ UNCHANGED <<pc, calls, breaker, rateCache, convCache>>)]_vars

\* a second convert(USD, UAH, 100) got the cached 3750
C11_Witness ==
    /\ Out.hit
    /\ Out.req = <<USD, UAH, Num(100)>>
    /\ returned[KeyOf(Out.req)].req = Out.req
    /\ Out.result.response[1].result = Num(3750)

\* C14: a convert call that ends in an error (invalid input, rate not
\* found, incomplete rate data, or an error of getExchangeRates) writes no
\* conversion-cache entry and returns no partial result; an entry is written
\* only in the step that returns a computed response, and it is that response.
C14_ConversionCachedOnlyOnSuccess ==
    [][/\ Out'.result.kind = "HttpException"
          => (convCache' = convCache /\ Out'.result.response = <<>>)
       /\ convCache' # convCache
          => (/\ Out'.result.kind = "ok"
              /\ ~Out'.hit
              /\ DOMAIN convCache' = DOMAIN convCache \cup {KeyOf(Out'.req)}
              /\ convCache'[KeyOf(Out'.req)].val = Out'.result.response
              /\ \A k \in DOMAIN convCache \ {KeyOf(Out'.req)} : convCache'[k] = convCache[k])]_vars

\* a convert call failed on incomplete rate data while another result is cached
C14_Witness ==
    /\ Out.result = IncompleteRateData
    /\ convCache # <<>>

\* C15: a convert call with an amount <= 0, or with a source or target
\* symbol without a numeric code, fails with status 400 before any side
\* effect: no cache read or write, no getExchangeRates call, no transport
\* call, no change of the breaker.
C15_InvalidInputBeforeSideEffects ==
    [][\A r \in Requests :
          (CalledWith(r) /\ InvalidRequest(r))
          => (/\ Out'.req = r
              /\ Out'.result.kind = "HttpException"
              /\ Out'.result.status = BAD_REQUEST
              /\ Out'.reads = 0
              /\ Out'.fetches = 0
              /\ started' = started
              /\ \A p \in Procs : ~Transport(p)
              /\ UNCHANGED <<convCache, rateCache, breaker, pc, calls, cpc>>)]_vars

\* convert(USD, UAH, 0) was refused while the breaker held a failure
C15_Witness ==
    /\ Out.req = <<USD, UAH, Num(0)>>
    /\ Out.result = InvalidAmount
    /\ failureCount = 1

\* C16: symbol lookup is case-insensitive: a convert call ends as the call
\* with the symbols in upper case ends against the same snapshot or the same
\* cache entry; it passes the same checks, uses the same cache key, and a
\* response echoes the symbols in upper case.
C16_CaseInsensitiveSymbols ==
    Out.req # NoArg
    => LET s == Out.req[1]
           t == Out.req[2]
           a == Out.req[3]
       IN  /\ getConversionCacheKey(s, t, a)
                = getConversionCacheKey(toUpperCase(s), toUpperCase(t), a)
           /\ validate(s, t, a) = validate(toUpperCase(s), toUpperCase(t), a)
           /\ Out.result.kind = "ok"
              => (/\ Out.result.response[1].from = toUpperCase(s)
                  /\ Out.result.response[1].to = toUpperCase(t))
           /\ Out.data # 0
              => Out.result = resolveAndConvert(SnapshotData(Out.data),
                                                toUpperCase(s), toUpperCase(t), a)
           /\ Out.hit
              => Out.result.response
                   = returned[getConversionCacheKey(toUpperCase(s), toUpperCase(t), a)].response

\* convert("USD", "UAH", 100) got the entry that convert("usd", "uah", 100) wrote
C16_Witness ==
    /\ Out.hit
    /\ Out.req = <<USD, UAH, Num(100)>>
    /\ returned[KeyOf(Out.req)].req = <<usd, uah, Num(100)>>
    /\ Out.result.response[1].from = USD

\* the amount the engine computes for the request r on the provider's
\* response number d, before it is rounded
Exact(d, r) ==
    LET fromCode == CURRENCY_CODES[toUpperCase(r[1])]
        toCode == CURRENCY_CODES[toUpperCase(r[2])]
    IN  calculateConversion(r[3], findRate(SnapshotData(d), fromCode, toCode)[1],
                            fromCode, toCode)[1]

\* x is a multiple of 0.0001
FourDecimals(x) == 10000 % x.d = 0

\* x is a multiple of 0.0001 at most 0.00005 away from e
RoundedFrom(x, e) ==
    /\ FourDecimals(x)
    /\ 2 * Abs(x.n * (10000 \div x.d) * e.d - 10000 * e.n) <= e.d

\* the convert call that ended in the last step returned a response
GotResponse == Out.result.response # <<>>

\* C23: every result that convert returns is the computed amount rounded to
\* 4 decimals, a multiple of 0.0001 at most 0.00005 away from the exact
\* amount: a computed result is so rounded from the amount on the snapshot
\* the call got, a result served from the conversion cache is the result
\* that was computed and stored, rounded from the amount on a snapshot the
\* provider sent; every stored result is a multiple of 0.0001.
C23_ResultRoundedTo4Decimals ==
    /\ GotResponse =>
          IF Out.hit
          THEN /\ Out.result.response = returned[KeyOf(Out.req)].response
               /\ \E d \in Snapshots : RoundedFrom(Out.result.response[1].result, Exact(d, Out.req))
          ELSE RoundedFrom(Out.result.response[1].result, Exact(Out.data, Out.req))
    /\ \A key \in DOMAIN convCache : FourDecimals(convCache[key].val[1].result)

\* 0.00049 * 37.5 = 0.018375 was served from the cache as 0.0184
C23_Witness ==
    /\ GotResponse
    /\ Out.hit
    /\ Out.req = <<USD, UAH, Rat(49, 100000)>>
    /\ Out.result.response[1].result = Rat(184, 10000)

\* the source, the target and the amount of a request, as the key holds them
Triple(r) == <<toUpperCase(r[1]), toUpperCase(r[2]), r[3]>>

\* C25: conversion results are cached under the normalized triple (source in
\* upper case, target in upper case, amount): an entry is stored under the
\* key of the triple of the response it holds, and was computed for a
\* request with that triple; the call that ended has the key of an entry
\* exactly when its triple is that of the entry, so a call that differs in
\* the amount or in the pair misses; a response served from the cache has
\* the triple of the call.
C25_KeyedByNormalizedTriple ==
    /\ \A key \in DOMAIN convCache :
          LET e == convCache[key].val[1]
          IN  /\ key = <<"conversion", e.from, e.to, e.amount>>
              /\ key \in DOMAIN returned
              /\ Triple(returned[key].req) = <<e.from, e.to, e.amount>>
              /\ out # <<>> =>
                    (getConversionCacheKey(Out.req[1], Out.req[2], Out.req[3]) = key
                        <=> Triple(Out.req) = <<e.from, e.to, e.amount>>)
    /\ (GotResponse /\ Out.hit) =>
          /\ <<Out.result.response[1].from, Out.result.response[1].to,
               Out.result.response[1].amount>> = Triple(Out.req)
          /\ Triple(returned[KeyOf(Out.req)].req) = Triple(Out.req)

\* convert(USD, UAH, 0.00049) missed and was computed while the result of
\* convert(USD, UAH, 100) was in the cache, unexpired
C25_Witness ==
    /\ GotResponse
    /\ ~Out.hit
    /\ Out.req = <<USD, UAH, Rat(49, 100000)>>
    /\ Out.result.response[1].result = Rat(184, 10000)
    /\ ConvCacheGet(convCache, KeyOf(<<USD, UAH, Num(100)>>), now) # <<>>

\* the errors of the resolver and of the engine
ResolutionErrors == {RateNotFound, IncompleteRateData}

\* a convert call ends in this step with an error of the resolver or of the
\* engine
ResolutionFailsNow == out' # <<>> /\ out'[1].result \in ResolutionErrors

\* C33: RateNotFound and IncompleteRateData are not retried and are no
\* failures of the provider.  A convert call that ends in either ends in
\* the step in which its one getExchangeRates call returned a snapshot;
\* that step leaves the breaker as it was and the snapshot in the cache.
\* No convert call makes more than one getExchangeRates call, and the
\* failure counter grows only in a step that ends a convert call with the
\* error of getExchangeRates.
C33_ResolutionErrorsNotUpstream ==
    /\ [](started <= converts)
    /\ [][/\ ResolutionFailsNow
             => (/\ out'[1].reads = 1
                 /\ out'[1].fetches = 1
                 /\ started' <= started + 1
                 /\ last'.result.kind = "ok"
                 /\ out'[1].data = last'.result.data
                 /\ \A p \in Clients : cpc'[p] = "idle" /\ pc'[p] = "idle"
                 /\ UNCHANGED breaker
                 /\ CacheGet(rateCache', now') = out'[1].data)
          /\ failureCount' > failureCount
             => (/\ out' # <<>>
                 /\ out'[1].result \notin ResolutionErrors
                 /\ out'[1].result = Thrown(last'.result.message, last'.result.status))]_vars

\* a convert call fetched a snapshot at its second attempt, found the rates
\* of its record missing and ended with IncompleteRateData: the breaker
\* counts no failure and the snapshot is in the cache
C33_Witness ==
    /\ out # <<>>
    /\ out[1].result = IncompleteRateData
    /\ out[1].req = <<EUR, UAH, Num(100)>>
    /\ out[1].transports = 2
    /\ failureCount = 0
    /\ CacheGet(rateCache, now) = out[1].data

\* invalidateCache has returned
Invalidated == ipc = "done"

\* no entry that was stored when invalidateCache was called is still there
StaleEntriesGone ==
    /\ \A key \in stale.conv : key \notin DOMAIN convCache
    /\ stale.rates => rateCache = NoEntry

\* the convert call that ended in the last step is the first one called
\* after invalidateCache returned, and no convert call was in flight while
\* invalidateCache ran
FirstAfterInvalidate ==
    /\ Invalidated
    /\ stale.quiet
    /\ converts = stale.at + 1
    /\ out # <<>>

\* C24 as stated: when invalidateCache returns no conversion entry and no
\* snapshot entry that was stored when it was called remains, and with no
\* other request in flight the next convert misses both caches and makes a
\* transport call.
C24_NextConvertFetchesUpstream ==
    /\ Invalidated => StaleEntriesGone
    /\ FirstAfterInvalidate =>
          /\ ~Out.hit
          /\ Out.fetches = 1
          /\ Out.transports >= 1

\* C24, amended: when invalidateCache returns no conversion entry and no
\* snapshot entry that was stored when it was called remains, and with no
\* other request in flight the next convert misses both caches and calls
\* getExchangeRates, which makes a transport call unless the breaker is
\* open and rejects the call: then convert fails with the 503 of the
\* breaker and no transport call is made.
C24_InvalidateClearsBothCaches ==
    /\ Invalidated => StaleEntriesGone
    /\ (Invalidated /\ stale.quiet /\ converts = stale.at)
          => (convCache = <<>> /\ rateCache = NoEntry)
    /\ FirstAfterInvalidate =>
          /\ ~Out.hit
          /\ Out.reads = 1
          /\ Out.fetches = 1
          /\ \/ Out.transports >= 1
             \/ /\ Out.transports = 0
                /\ Out.result = Thrown(CircuitOpenError.message, SERVICE_UNAVAILABLE)

\* both caches held an entry when invalidateCache was called, and the next
\* convert(USD, UAH, 100) was computed anew on a snapshot fetched by one
\* transport call
C24_Witness ==
    /\ FirstAfterInvalidate
    /\ stale.held = 2
    /\ Out.req = <<USD, UAH, Num(100)>>
    /\ Out.result.response # <<>>
    /\ Out.transports = 1

\* --------------------------------------------------------------------
\* The age of what convert returns, under SpecStale
\* --------------------------------------------------------------------
\* a convert call returned a response in the last step
ResultReturned == out # <<>> /\ out[1].result.response # <<>>

\* the time since the snapshot behind the response returned in the last
\* step came from the provider
Age == now - origin.out[1]

\* C34: staleness is bounded by two times to live.  While every cache
\* write resolves in the unit of time in which it was issued and
\* invalidateCache is not called, a response that convert returns was
\* computed from a snapshot fetched at most 2 * cacheTtl before the return:
\* at most one time to live when convert computed it in this call, the
\* time the snapshot entry lived, and one more when it comes from the
\* conversion cache.  Time being discrete and an entry being served only
\* before its expiry time, each of the two terms is at most cacheTtl - 1.
C34_StalenessWithinTwoTtl ==
    (ResultReturned /\ origin.atomic)
    => (/\ origin.out # <<>>
        /\ Age >= 0
        /\ Age <= 2 * cacheTtl
        /\ Age <= 2 * (cacheTtl - 1)
        /\ ~out[1].hit => Age <= cacheTtl - 1
        /\ out[1].transports > 0 => Age = 0)

\* a response served from the conversion cache at the end of its time to
\* live, computed at the end of the time to live of a cached snapshot: it
\* is 2 * (cacheTtl - 1) > 0 old
C34_Witness ==
    /\ ResultReturned
    /\ origin.atomic
    /\ out[1].hit
    /\ cacheTtl > 1
    /\ Age = 2 * (cacheTtl - 1)

====
